---- MODULE Spec2Model ----
(***************************************************************************)
(* FlowerSlide: the PPTX export pipeline (src/utils/pptxGenerator.ts) and  *)
(* its caller in the viewer (src/components/SlideViewer.tsx).              *)
(*                                                                         *)
(* A text is a sequence of characters (one-element strings).  A JavaScript *)
(* object is a record; an optional property that is missing is a field     *)
(* that is not in the record's DOMAIN.  A data URI is a record             *)
(* [mime, payload].  Time is counted in seconds.                           *)
(***************************************************************************)
EXTENDS Naturals, Sequences, FiniteSets, TLC

VARIABLES
    presentation,       \* App state: the deck shown by the viewer, or null
    isLoading,          \* App state: a generation call is awaited
    error,              \* App state: the error message shown, or null
    gen,                \* the generation call in flight
    viewerId,           \* the number of SlideViewer instances mounted so far
    requests,           \* the assistant update calls in flight
    currentSlideIndex,  \* SlideViewer state: the page shown, 0 is the cover
    isChatOpen,         \* SlideViewer state: the chat panel is open
    keyListener,        \* what the registered keydown listener closed over
    isUpdating,         \* SlideViewer state: an assistant update is awaited
    chatMessages,       \* SlideViewer state: the chat, as the kinds of its messages
    edits,              \* EditableText state of the two fields of the cover
    wasReset,           \* the user reset and no generation has succeeded since
    lastCommit,         \* what the last handleBlur of an EditableText did
    imageSeeds,         \* SlideViewer state: slide index -> regenerated seed
    customSlideImages,  \* SlideViewer state: slide index -> uploaded data URI
    isExporting,        \* SlideViewer state: the exporting flag
    themeId,            \* App state currentThemeId, the SlideViewer's themeId prop
    customBackground,   \* SlideViewer state: the uploaded background, or null
    pc,                 \* where the export is: idle, fetch, write, done, rejected
    args,               \* the arguments downloadPPTX was called with
    i,                  \* downloadPPTX: the loop variable
    pages,              \* the slides added to the PptxGenJS document so far
    pres,               \* the PptxGenJS document: its metadata and slide master
    fetch,              \* getBase64FromUrl: the fetch in flight
    fetchLog,           \* the image fetches this export issued and how each ended
    alerts,             \* number of alert() notifications raised by this export
    saved,              \* the file handed to the browser by writeFile, if any
    others,             \* how the earlier exports that are still running will end
    sanPc,              \* sanitizeText harness: input, once, twice (off in Spec)
    sanIn,              \* sanitizeText harness: the argument
    sanOut,             \* sanitizeText harness: sanitizeText(sanIn)
    sanAgain,           \* sanitizeText harness: sanitizeText(sanOut)
    fnPc,               \* file name harness: input, done (off in Spec)
    fnIn,               \* file name harness: the main title
    fnOut               \* file name harness: the stem derived from fnIn

styleVars == <<themeId, customBackground>>
appVars == <<isLoading, error, gen, wasReset>>
chatVars == <<viewerId, requests, isUpdating, chatMessages>>
editVars == <<edits, lastCommit>>
navVars == <<isChatOpen, keyListener>>
uiVars == <<appVars, chatVars, currentSlideIndex, navVars, editVars>>
viewerVars == <<presentation, imageSeeds, customSlideImages, isExporting, styleVars,
                uiVars>>
exportVars == <<pc, args, i, pages, pres, fetch, fetchLog, alerts, saved>>
sanVars == <<sanPc, sanIn, sanOut, sanAgain>>
fnVars == <<fnPc, fnIn, fnOut>>
harnessVars == <<sanVars, fnVars>>
vars == <<presentation, imageSeeds, customSlideImages, isExporting,
          themeId, customBackground,
          isLoading, error, gen, wasReset, viewerId, requests, isUpdating,
          chatMessages, currentSlideIndex, isChatOpen, keyListener, edits, lastCommit,
          pc, args, i, pages, pres, fetch, fetchLog, alerts, saved, others,
          sanPc, sanIn, sanOut, sanAgain, fnPc, fnIn, fnOut>>

----------------------------------------------------------------------------
(* Bounds of the model *)

\* longest text given to sanitizeText in the sanitizeText harness
MaxLen == 3
\* largest number of slides of a deck
MaxSlides == 2
\* seconds after which the model stops counting the time of a stalled fetch
MaxElapsed == 5

----------------------------------------------------------------------------
(* Text: String.prototype.trim, charAt, toUpperCase, slice *)

\* The characters of the model: two white-space characters, a lower-case and
\* an upper-case letter, a digit, and "sz" for U+00DF (sharp s), whose
\* upper-case form is the two characters "SS".
Alphabet == {" ", "\t", "a", "A", "1", "sz"}

WhiteSpace == {" ", "\t", "\n"}

\* the value undefined where a text is expected
Undefined == <<"undefined">>

\* String.prototype.toUpperCase on a one-character string
ToUpperCase(c) ==
    CASE c = "a" -> <<"A">>
      [] c = "b" -> <<"B">>
      [] c = "i" -> <<"I">>
      [] c = "sz" -> <<"S", "S">>
      [] OTHER -> <<c>>

RECURSIVE TrimStart(_)
TrimStart(s) ==
    IF s # <<>> /\ Head(s) \in WhiteSpace THEN TrimStart(Tail(s)) ELSE s

RECURSIVE TrimEnd(_)
TrimEnd(s) ==
    IF s # <<>> /\ s[Len(s)] \in WhiteSpace
    THEN TrimEnd(SubSeq(s, 1, Len(s) - 1))
    ELSE s

\* String.prototype.trim
Trim(s) == TrimEnd(TrimStart(s))

\* a plausible slip: every character is upper-cased, not only charAt(0)
RECURSIVE UpperAll(_)
UpperAll(s) == IF s = <<>> THEN <<>> ELSE ToUpperCase(Head(s)) \o UpperAll(Tail(s))

sanitizeText_UpperAll(text) ==
    IF text = Undefined \/ text = <<>> THEN <<>> ELSE UpperAll(Trim(text))

\* a plausible slip: the first character is upper-cased before trimming
sanitizeText_UpperThenTrim(text) ==
    IF text = Undefined \/ text = <<>> THEN <<>>
    ELSE Trim(ToUpperCase(Head(text)) \o Tail(text))

\* sanitizeText: "" for a falsy or white-space-only text, otherwise the
\* trimmed text with charAt(0) upper-cased
sanitizeText(text) ==
    IF text = Undefined \/ text = <<>> THEN <<>>
    ELSE LET trimmed == Trim(text) IN
         IF Len(trimmed) = 0 THEN <<>>
         ELSE ToUpperCase(Head(trimmed)) \o Tail(trimmed)

----------------------------------------------------------------------------
(* Decks, images and the per-slide override maps (src/types.ts) *)

\* a data URI: its declared media type and what it encodes
DataUri(mime, payload) == [mime |-> mime, payload |-> payload]

\* the values "" and undefined where a data URI is expected
EmptyString == DataUri("", <<>>)
UndefinedUri == DataUri("undefined", <<>>)
NullUri == DataUri("null", <<>>)

\* JavaScript truthiness of a data URI
TruthyUri(d) == d # EmptyString /\ d # UndefinedUri /\ d # NullUri

\* JavaScript truthiness of a text
TruthyText(t) == t # Undefined /\ t # <<>>

\* obj[key] of an index-keyed object: undef when the key is missing
Lookup(obj, key, undef) == IF key \in DOMAIN obj THEN obj[key] ELSE undef

\* obj.key of an object whose property key is optional
Prop(obj, key) == IF key \in DOMAIN obj THEN obj[key] ELSE Undefined

\* the decimal digit of a slide index
Digit(k) == CASE k = 0 -> "0" [] k = 1 -> "1" [] k = 2 -> "2" [] k = 3 -> "3" [] OTHER -> "n"

\* the image the user uploaded for slide index k (FileReader.readAsDataURL)
Upload(k) == DataUri("image", <<"upload", Digit(k)>>)

\* what the image service sends for a seed when it answers with an image
PicsumImage(seed) == DataUri("image", <<"picsum">> \o seed)

\* what a response that is no image (an HTML error page) reads as
NotAnImage(seed) == DataUri("text/html", <<"picsum">> \o seed)

\* Slides of the model: with and without speaker notes, with text that
\* sanitizeText changes, and one whose content property is missing (the
\* response schema of the generation call marks no property as required).
SlidePool ==
    { [title |-> <<" ", "a">>, content |-> << <<"a">>, <<"b", " ">> >>,
       imageKeyword |-> <<"k", "1">>],
      [title |-> <<"A", "b">>, content |-> << <<"b">> >>,
       imageKeyword |-> <<"k", "2">>, speakerNotes |-> <<"a", "b">>],
      [title |-> <<"b">>, imageKeyword |-> <<"k", "3">>] }

RECURSIVE SeqsOfLen(_, _)
SeqsOfLen(S, n) ==
    IF n = 0 THEN {<<>>}
    ELSE {<<x>> \o t : x \in S, t \in SeqsOfLen(S, n - 1)}

Decks ==
    { [mainTitle |-> <<"a", " ">>, slides |-> sl, includeImages |-> inc]
        : sl \in UNION {SeqsOfLen(SlidePool, n) : n \in 0..MaxSlides},
          inc \in BOOLEAN }
    \cup
    { [mainTitle |-> <<"A">>, subTitle |-> <<" ", "b">>, slides |-> sl,
       includeImages |-> inc]
        : sl \in UNION {SeqsOfLen(SlidePool, n) : n \in 0..MaxSlides},
          inc \in BOOLEAN }

\* slide indices are 0-based, as the keys of the override maps are
SlideIndices == 0..(MaxSlides - 1)

\* customSlideImages: any set of indices has an uploaded image
CustomMaps == {[k \in D |-> Upload(k)] : D \in SUBSET SlideIndices}

\* a regenerated seed of slide index k (refreshImage: keyword-random)
Seed(k) == <<"r", Digit(k)>>

\* imageSeeds: any set of indices has a regenerated seed
SeedMaps == {[k \in D |-> Seed(k)] : D \in SUBSET SlideIndices}

----------------------------------------------------------------------------
(* The theme catalog (src/utils/themes.ts) and the theme lookup *)

Theme(id, name, bg, text, accent, secondary) ==
    [id |-> id, name |-> name,
     colors |-> [hex |-> [bg |-> bg, text |-> text, accent |-> accent,
                          secondary |-> secondary]]]

\* the catalog, in the order of the source; the hex colours are the ones the
\* export uses
PRESENTATION_THEMES ==
    << Theme("modern-slate", "Modern Slate", "0f172a", "f8fafc", "6366f1", "94a3b8"),
       Theme("clean-white", "Clean White", "ffffff", "111827", "2563eb", "6b7280"),
       Theme("midnight-purple", "Midnight Purple", "3b0764", "faf5ff", "ec4899", "d8b4fe"),
       Theme("forest-calm", "Forest Calm", "f5f5f4", "292524", "059669", "57534e"),
       Theme("corporate-blue", "Corporate Blue", "1e3a8a", "ffffff", "fbbf24", "bfdbfe"),
       Theme("sunset-warm", "Sunset Warm", "fff7ed", "111827", "f97316", "4b5563") >>

\* the catalog entries with the given id
ThemesWithId(id) ==
    {n \in 1..Len(PRESENTATION_THEMES) : PRESENTATION_THEMES[n].id = id}

\* the first entry of a non-empty set of catalog positions
FirstOf(S) == CHOOSE n \in S : \A m \in S : n <= m

\* a plausible slip: an unknown id falls back to the last entry
FindTheme_LastFallback(id) ==
    IF ThemesWithId(id) # {}
    THEN PRESENTATION_THEMES[FirstOf(ThemesWithId(id))]
    ELSE PRESENTATION_THEMES[Len(PRESENTATION_THEMES)]

\* PRESENTATION_THEMES.find(t => t.id === themeId) || PRESENTATION_THEMES[0]
FindTheme(id) ==
    IF ThemesWithId(id) # {}
    THEN PRESENTATION_THEMES[FirstOf(ThemesWithId(id))]
    ELSE PRESENTATION_THEMES[1]

\* the theme identifiers the viewer is given: those of the catalog, one that
\* is not in it, and the empty one
ThemeIds ==
    {PRESENTATION_THEMES[n].id : n \in 1..Len(PRESENTATION_THEMES)}
    \cup {"retro-neon", ""}

\* the background image the user uploaded (FileReader.readAsDataURL)
BackgroundUpload == DataUri("image", <<"background">>)

\* customBackground: an uploaded image, or null
Backgrounds == {NullUri, BackgroundUpload}

----------------------------------------------------------------------------
(* downloadPPTX: the document and its pages (src/utils/pptxGenerator.ts) *)

\* const masterBackground = backgroundImage ? { data } : { color: hex.bg }
masterBackground(theme, backgroundImage) ==
    IF TruthyUri(backgroundImage)
    THEN [data |-> backgroundImage]
    ELSE [color |-> theme.colors.hex.bg]

\* a plausible slip: the bottom bar is drawn whatever the background is
MasterObjects_AlwaysBar(theme, backgroundImage) ==
    <<[rect |-> [y |-> 95, h |-> 5, fill |-> theme.colors.hex.accent]]>>

\* objects of the slide master: the bottom bar, unless there is a background
\* image
MasterObjects(theme, backgroundImage) ==
    IF TruthyUri(backgroundImage) THEN <<>>
    ELSE <<[rect |-> [y |-> 95, h |-> 5, fill |-> theme.colors.hex.accent]]>>

\* new PptxGenJS(), the metadata and pres.defineSlideMaster
NewPres(p, theme, backgroundImage) ==
    [title |-> Prop(p, "mainTitle"),
     author |-> "FlowerSlide AI",
     master |-> [title |-> "MASTER_SLIDE",
                 background |-> masterBackground(theme, backgroundImage),
                 slideNumber |-> [color |-> theme.colors.hex.secondary],
                 objects |-> MasterObjects(theme, backgroundImage)]]

\* no document: no export was started
NoPres == [title |-> <<>>, author |-> "", master |-> [title |-> ""]]

\* setTimeout(() => controller.abort(), 4000), in seconds
FETCH_TIMEOUT == 4

\* pres.addSlide({ masterName: "MASTER_SLIDE" }), with the objects added to it
AddSlide(objects) == [masterName |-> "MASTER_SLIDE", objects |-> objects]

\* 1. Cover Slide: the title, and the subtitle when the deck has one
CoverPage(p, theme) ==
    <<[op |-> "text", box |-> "coverTitle", text |-> sanitizeText(Prop(p, "mainTitle")),
       color |-> theme.colors.hex.text, fontSize |-> 44, shrinkText |-> TRUE]>>
    \o (IF TruthyText(Prop(p, "subTitle"))
        THEN <<[op |-> "text", box |-> "subTitle", text |-> sanitizeText(p.subTitle),
                color |-> theme.colors.hex.accent, fontSize |-> 24,
                shrinkText |-> TRUE]>>
        ELSE <<>>)

\* const hasImage = presentation.includeImages
hasImage_Always(p) == TRUE
hasImage(p) == p.includeImages

\* a plausible slip: the paragraphs are in the reverse order of the bullets
BulletText_Reversed(content) ==
    [k \in 1..Len(content) |-> sanitizeText(content[Len(content) + 1 - k])]

\* slide.content.map(point => ({ text: sanitizeText(point), ... }))
BulletText(content) == [k \in 1..Len(content) |-> sanitizeText(content[k])]

\* the title of a content slide and the line under it
SlideHead(slide, theme) ==
    << [op |-> "text", box |-> "slideTitle", text |-> sanitizeText(Prop(slide, "title")),
        color |-> theme.colors.hex.accent, fontSize |-> 32, shrinkText |-> TRUE],
       [op |-> "line", color |-> theme.colors.hex.accent] >>

\* a plausible slip: the bullet block is written without shrinkText
SlideBullets_NoShrink(p, slide, theme) ==
    << [op |-> "text", box |-> "bullets", paras |-> BulletText(slide.content),
        w |-> IF hasImage(p) THEN 50 ELSE 90,
        color |-> theme.colors.hex.text, fontSize |-> 18, shrinkText |-> FALSE] >>

\* the bullet block of a content slide; contentWidth is 50% beside an image
SlideBullets(p, slide, theme) ==
    << [op |-> "text", box |-> "bullets", paras |-> BulletText(slide.content),
        w |-> IF hasImage(p) THEN 50 ELSE 90,
        color |-> theme.colors.hex.text, fontSize |-> 18, shrinkText |-> TRUE] >>

\* let base64Image = customSlideImages[i]
CustomImage(a, k) == Lookup(a.customSlideImages, k, UndefinedUri)

\* const seed = imageSeeds[i] || slide.imageKeyword
ImageSeed_KeywordFirst(a, k) == a.presentation.slides[k + 1].imageKeyword
ImageSeed(a, k) ==
    LET seed == Lookup(a.imageSeeds, k, Undefined) IN
    IF TruthyText(seed) THEN seed ELSE a.presentation.slides[k + 1].imageKeyword

\* if (base64Image) pptxSlide.addImage(...); if (slide.speakerNotes) addNotes(...)
SlideEnd(slide, base64Image) ==
    (IF TruthyUri(base64Image) THEN <<[op |-> "image", data |-> base64Image]>> ELSE <<>>)
    \o (IF TruthyText(Prop(slide, "speakerNotes"))
        THEN <<[op |-> "notes", text |-> sanitizeText(slide.speakerNotes)]>>
        ELSE <<>>)

\* the last page, with more objects added to it
AddToLast(pgs, objects) ==
    [pgs EXCEPT ![Len(pgs)].objects = @ \o objects]

\* for (let i = 0; i < presentation.slides.length; i++): the loop is over
LoopDone_OffByOne(a, k) == k + 1 >= Len(a.presentation.slides)
LoopDone(a, k) == k >= Len(a.presentation.slides)

\* The loop from iteration k up to the next await: the writeFile of line 188
\* (pc write), the getBase64FromUrl of line 163 (pc fetch, the page of slide
\* k begun), or the TypeError of slide.content.map on a slide without
\* content, which leaves downloadPPTX as a rejection (pc rejected).
RECURSIVE RunLoop(_, _, _)
RunLoop(a, k, pgs) ==
    IF LoopDone(a, k) THEN [pc |-> "write", i |-> k, pages |-> pgs]
    ELSE LET slide == a.presentation.slides[k + 1] IN
         IF "content" \notin DOMAIN slide
         THEN [pc |-> "rejected", i |-> k,
               pages |-> Append(pgs, AddSlide(SlideHead(slide, a.theme)))]
         ELSE LET begun == Append(pgs,
                                  AddSlide(SlideHead(slide, a.theme)
                                           \o SlideBullets(a.presentation, slide, a.theme))) IN
              IF ~hasImage(a.presentation)
              THEN RunLoop(a, k + 1, AddToLast(begun, SlideEnd(slide, UndefinedUri)))
              ELSE IF TruthyUri(CustomImage(a, k))
              THEN RunLoop(a, k + 1, AddToLast(begun, SlideEnd(slide, CustomImage(a, k))))
              ELSE [pc |-> "fetch", i |-> k, pages |-> begun]

\* a plausible slip: after a fetch that gave no image the iteration of
\* slide k is run again
AfterFetch_Retry(a, k, pgs, fetched) ==
    IF TruthyUri(fetched)
    THEN RunLoop(a, k + 1, AddToLast(pgs, SlideEnd(a.presentation.slides[k + 1], fetched)))
    ELSE RunLoop(a, k, SubSeq(pgs, 1, Len(pgs) - 1))

\* The loop after the await of line 163 for slide k: fetched is what
\* getBase64FromUrl returned, undefined when it rejected (the catch of line
\* 165); if (fetched) base64Image = fetched.
AfterFetch(a, k, pgs, fetched) ==
    LET base64Image == IF TruthyUri(fetched) THEN fetched ELSE CustomImage(a, k) IN
    RunLoop(a, k + 1, AddToLast(pgs, SlideEnd(a.presentation.slides[k + 1], base64Image)))

----------------------------------------------------------------------------
(* downloadPPTX: the file name (src/utils/pptxGenerator.ts, line 187) *)

\* The characters of the model that the classes a-z, A-Z, 0-9 and the two
\* Cyrillic ranges of the regular expression hold, and the space.  "ya" and
\* "Zhe" stand for the Cyrillic letters U+044F and U+0416; "yo" stands for
\* the Cyrillic letter U+0451, which lies outside both Cyrillic ranges.
LatinLetters == {"a", "b", "e", "i", "n", "o", "r", "s", "t",
                 "A", "B", "I", "P", "S", "Z"}
Digits == {"0", "1", "2", "3", "7"}
CyrillicRange == {"ya", "Zhe"}
AllowList == LatinLetters \cup Digits \cup CyrillicRange \cup {" "}

\* .substring(0, 30)
STEM_LENGTH == 30

\* the default name
DefaultName == <<"P", "r", "e", "s", "e", "n", "t", "a", "t", "i", "o", "n">>

\* .replace(/[^a-zA-Z0-9\u0430-\u044f\u0410-\u042f ]/g, "")
StripDisallowed(t) == SelectSeq(t, LAMBDA c : c \in AllowList)

\* .substring(0, n)
Substring0(t, n) == SubSeq(t, 1, IF Len(t) < n THEN Len(t) ELSE n)

\* a plausible slip: no default name
safeTitle_NoDefault(mainTitle) ==
    Substring0(StripDisallowed(mainTitle), STEM_LENGTH)

\* const safeTitle = mainTitle.replace(...).substring(0, 30) || "Presentation"
safeTitle(mainTitle) ==
    LET stem == Substring0(StripDisallowed(mainTitle), STEM_LENGTH) IN
    IF TruthyText(stem) THEN stem ELSE DefaultName

----------------------------------------------------------------------------
(* The export as a process: handleDownloadPPTX, downloadPPTX, getBase64FromUrl *)

NoFetch == [phase |-> "none", elapsed |-> 0, timer |-> FALSE, seed |-> <<>>,
            result |-> EmptyString]

NoArgs == [presentation |-> [mainTitle |-> <<>>, slides |-> <<>>, includeImages |-> FALSE],
           theme |-> PRESENTATION_THEMES[1], imageSeeds |-> <<>>,
           backgroundImage |-> NullUri, customSlideImages |-> <<>>]

ExportIdle ==
    /\ pc = "idle"
    /\ args = NoArgs
    /\ i = 0
    /\ pages = <<>>
    /\ pres = NoPres
    /\ fetch = NoFetch
    /\ fetchLog = <<>>
    /\ alerts = 0
    /\ saved = <<>>
    /\ others = <<>>

\* the value null where a deck is expected
Null == [null |-> TRUE]

\* the value null where an error message is expected
NoError == "null"

NoGen == [pending |-> FALSE, includeImages |-> FALSE]

\* the kinds of chat messages: the greeting, a user's message, the
\* assistant's confirmation and the assistant's apology
Greeting == "greeting"

\* an EditableText after mounting: not editing, tempValue is its value
Mounted(value) == [isEditing |-> FALSE, tempValue |-> value]

\* the value prop of the EditableText of a field of the cover
FieldValue(p, field) ==
    IF field = "subTitle"
    THEN (IF TruthyText(Prop(p, "subTitle")) THEN p.subTitle ELSE <<>>)
    ELSE p.mainTitle

CoverFields == {"mainTitle", "subTitle"}

\* no EditableText of the cover is mounted
NoEdits == [f \in CoverFields |-> Mounted(<<>>)]

NoCommit == [by |-> "none", field |-> "none", onChange |-> FALSE, same |-> FALSE]

\* useState initial values of App, apart from presentation and currentThemeId
AppFresh ==
    /\ isLoading = FALSE
    /\ error = NoError
    /\ gen = NoGen
    /\ wasReset = FALSE

\* useState initial values of SlideViewer, apart from the ones of the export
\* the closure of the keydown listener registered by the effect of line 162
\* in a render with deck p, page index and chat state open
Registered(p, index, open) ==
    [currentSlideIndex |-> index, isChatOpen |-> open,
     slidesLength |-> IF p = Null THEN 0 ELSE Len(p.slides)]

ChatFresh ==
    /\ isChatOpen = FALSE
    /\ keyListener = Registered(presentation, 0, FALSE)
    /\ isUpdating = FALSE
    /\ chatMessages = <<Greeting>>
    /\ currentSlideIndex = 0

\* the part of the application the export does not touch, at rest
UiAtRest ==
    /\ AppFresh
    /\ ChatFresh
    /\ viewerId = 1
    /\ requests = {}
    /\ edits = [f \in CoverFields |-> Mounted(FieldValue(presentation, f))]
    /\ lastCommit = NoCommit

\* the file name harness is not in use
FileNameOff ==
    /\ fnPc = "off"
    /\ fnIn = <<>>
    /\ fnOut = <<>>

\* how a fetch ends: the abort timer fired, the response was not ok, fetch()
\* rejected, blob() rejected, the FileReader failed, or the body was loaded
Endings == {"timeout", "http_error", "network_error", "body_error",
            "read_error", "loaded"}

\* the export moves to r, the result of RunLoop; at an await of
\* getBase64FromUrl the fetch is issued and the abort timer armed
Proceed(a, r, log) ==
    /\ pc' = r.pc
    /\ i' = r.i
    /\ pages' = r.pages
    /\ IF r.pc = "fetch"
       THEN /\ fetch' = [phase |-> "connecting", elapsed |-> 0, timer |-> TRUE,
                         seed |-> ImageSeed(a, r.i), result |-> EmptyString]
            /\ fetchLog' = Append(log, [index |-> r.i, seed |-> ImageSeed(a, r.i),
                                        outcome |-> "pending", result |-> EmptyString])
       ELSE /\ fetch' = NoFetch
            /\ fetchLog' = log

\* const theme = PRESENTATION_THEMES.find(...) || PRESENTATION_THEMES[0]
theme == FindTheme(themeId)

\* handleDownloadPPTX up to the first await of downloadPPTX:
\* setIsExporting(true), the document is created and the loop begun
StartExport ==
    /\ isExporting' = TRUE
    /\ LET a == [presentation |-> presentation, theme |-> theme,
                 imageSeeds |-> imageSeeds, backgroundImage |-> customBackground,
                 customSlideImages |-> customSlideImages]
       IN /\ args' = a
          /\ pres' = NewPres(a.presentation, a.theme, a.backgroundImage)
          /\ Proceed(a, RunLoop(a, 0, <<AddSlide(CoverPage(a.presentation, a.theme))>>), <<>>)
    /\ alerts' = 0
    /\ saved' = <<>>
    /\ UNCHANGED <<presentation, imageSeeds, customSlideImages, styleVars, uiVars,
                   harnessVars>>

\* handleDownloadPPTX while no export is running
handleDownloadPPTX ==
    /\ pc \in {"idle", "done", "rejected"}
    /\ StartExport
    /\ UNCHANGED others

\* a plausible slip: after an await the export reads the deck and the maps
\* the viewer holds now
CallArgs_Live ==
    IF presentation # Null /\ Len(presentation.slides) = Len(args.presentation.slides)
    THEN [args EXCEPT !.presentation = presentation, !.imageSeeds = imageSeeds,
                      !.customSlideImages = customSlideImages]
    ELSE args

\* the parameters of downloadPPTX: the values it was called with
CallArgs == args

\* the fetch in flight ends with the given outcome and downloadPPTX resumes
\* with fetched; the maps it was given are only read
Resume(fetched, outcome) ==
    /\ Proceed(CallArgs, AfterFetch(CallArgs, i, pages, fetched),
               [fetchLog EXCEPT ![Len(fetchLog)].outcome = outcome,
                                ![Len(fetchLog)].result = fetch.result])
    /\ UNCHANGED <<pres, alerts, saved, isExporting, styleVars, uiVars, harnessVars, others>>

\* a plausible slip: the fetched image is stored in the map of uploaded images
Settle_WriteBack(fetched, outcome) ==
    /\ Resume(fetched, outcome)
    /\ customSlideImages' = IF TruthyUri(fetched)
                            THEN (i :> fetched) @@ customSlideImages
                            ELSE customSlideImages
    /\ UNCHANGED <<args, presentation, imageSeeds>>

Settle(fetched, outcome) ==
    /\ Resume(fetched, outcome)
    /\ UNCHANGED <<args, presentation, imageSeeds, customSlideImages>>

\* the abort timer of line 15 is armed and due
TimerDue_Early(f) == f.timer /\ f.elapsed >= 1
TimerDue(f) == f.timer /\ f.elapsed >= FETCH_TIMEOUT

\* a second passes while the fetch is in flight
Tick ==
    /\ pc = "fetch"
    /\ fetch.phase \in {"connecting", "body"}
    /\ ~TimerDue(fetch)
    /\ fetch.elapsed < MaxElapsed
    /\ fetch' = [fetch EXCEPT !.elapsed = @ + 1]
    /\ UNCHANGED <<viewerVars, pc, args, i, pages, pres, fetchLog, alerts, saved, harnessVars, others>>

\* the timer fires: controller.abort() rejects the fetch, the catch of line
\* 43 returns ""
TimerFires ==
    /\ pc = "fetch"
    /\ fetch.phase = "connecting"
    /\ TimerDue(fetch)
    /\ Settle(EmptyString, "timeout")

\* fetch() resolves with the response headers: clearTimeout(timeoutId); a
\* response that is not ok throws and the catch returns ""
ResponseArrives ==
    /\ pc = "fetch"
    /\ fetch.phase = "connecting"
    /\ \E ok \in BOOLEAN :
        IF ok
        THEN /\ fetch' = [fetch EXCEPT !.phase = "body", !.timer = FALSE]
             /\ UNCHANGED <<viewerVars, pc, args, i, pages, pres, fetchLog, alerts, saved, harnessVars, others>>
        ELSE Settle(EmptyString, "http_error")

\* fetch() rejects (network failure, CORS): the catch returns "".  The timer
\* is not cleared on this path; when it fires it aborts a controller whose
\* fetch is over, which changes nothing.
NetworkError ==
    /\ pc = "fetch"
    /\ fetch.phase = "connecting"
    /\ Settle(EmptyString, "network_error")

\* response.blob() resolves: reader.readAsDataURL(blob) is started
BodyArrives ==
    /\ pc = "fetch"
    /\ fetch.phase = "body"
    /\ \E r \in {PicsumImage(fetch.seed), NotAnImage(fetch.seed)} :
        fetch' = [fetch EXCEPT !.phase = "reading", !.result = r]
    /\ UNCHANGED <<viewerVars, pc, args, i, pages, pres, fetchLog, alerts, saved, harnessVars, others>>

\* response.blob() rejects (the connection drops): the catch returns ""
BodyFails ==
    /\ pc = "fetch"
    /\ fetch.phase = "body"
    /\ Settle(EmptyString, "body_error")

\* result.startsWith('data:image')
IsImageDataUri_NoCheck(result) == TruthyUri(result)
IsImageDataUri(result) == TruthyUri(result) /\ result.mime = "image"

\* reader.onloadend: resolve(result) for an image, resolve("") otherwise
ReaderLoadEnd ==
    /\ pc = "fetch"
    /\ fetch.phase = "reading"
    /\ IF IsImageDataUri(fetch.result)
       THEN Settle(fetch.result, "loaded")
       ELSE Settle(EmptyString, "loaded")

\* reader.onerror: the promise returned at line 29 rejects after the try
\* block was left, so getBase64FromUrl rejects; the catch of line 165 logs it
ReaderError ==
    /\ pc = "fetch"
    /\ fetch.phase = "reading"
    /\ Settle(UndefinedUri, "read_error")

\* pres.writeFile resolves: the file is downloaded; downloadPPTX returns and
\* handleDownloadPPTX calls setIsExporting(false)
WriteFileDone ==
    /\ pc = "write"
    /\ saved' = <<[fileName |-> safeTitle(args.presentation.mainTitle) \o <<".pptx">>,
                   pages |-> pages]>>
    /\ pc' = "done"
    /\ isExporting' = FALSE
    /\ UNCHANGED <<presentation, imageSeeds, customSlideImages, styleVars, uiVars, args,
                   i, pages, pres, fetch, fetchLog, alerts, harnessVars, others>>

\* pres.writeFile rejects: the catch of line 189 logs and alerts; downloadPPTX
\* returns and handleDownloadPPTX calls setIsExporting(false)
WriteFileFails ==
    /\ pc = "write"
    /\ alerts' = alerts + 1
    /\ pc' = "done"
    /\ isExporting' = FALSE
    /\ UNCHANGED <<presentation, imageSeeds, customSlideImages, styleVars, uiVars, args,
                   i, pages, pres, fetch, fetchLog, saved, harnessVars, others>>

Init ==
    /\ presentation \in Decks
    /\ imageSeeds \in SeedMaps
    /\ customSlideImages \in CustomMaps
    /\ isExporting = FALSE
    /\ UiAtRest
    /\ themeId = PRESENTATION_THEMES[1].id
    /\ customBackground = NullUri
    /\ ExportIdle
    /\ sanPc = "off"
    /\ sanIn = <<>>
    /\ sanOut = <<>>
    /\ sanAgain = <<>>
    /\ FileNameOff

Next ==
    \/ handleDownloadPPTX
    \/ Tick
    \/ TimerFires
    \/ ResponseArrives
    \/ NetworkError
    \/ BodyArrives
    \/ BodyFails
    \/ ReaderLoadEnd
    \/ ReaderError
    \/ WriteFileDone
    \/ WriteFileFails

\* most exports running beside the one that is followed
MaxOthers == 2

\* how the export that is running will end: downloadPPTX rejects at the first
\* slide without content that is still to come, otherwise it returns after
\* writeFile has resolved or its rejection was caught
Fate ==
    IF \E k \in (i + 2)..Len(args.presentation.slides) :
            "content" \notin DOMAIN args.presentation.slides[k]
    THEN "rejects" ELSE "returns"

\* handleDownloadPPTX while an export is running; the export menu stays
\* enabled.  From here on the model follows the new export, and keeps of the
\* earlier one how it will end.
ExportAgain ==
    /\ pc \in {"fetch", "write"}
    /\ Len(others) < MaxOthers
    /\ others' = Append(others, IF pc = "write" THEN "returns" ELSE Fate)
    /\ StartExport

\* an earlier export ends: when its downloadPPTX returns, its
\* handleDownloadPPTX calls setIsExporting(false); when it rejects, nothing
\* is called
OtherExportEnds ==
    /\ \E n \in 1..Len(others) :
        /\ others' = SubSeq(others, 1, n - 1) \o SubSeq(others, n + 1, Len(others))
        /\ IF others[n] = "returns" THEN isExporting' = FALSE
           ELSE UNCHANGED isExporting
    /\ UNCHANGED <<presentation, imageSeeds, customSlideImages, styleVars, uiVars,
                   exportVars, harnessVars>>

Spec == Init /\ [][Next]_vars

\* exports of a deck without overrides, also while another export is running
InitExports ==
    /\ Init
    /\ imageSeeds = <<>>
    /\ customSlideImages = <<>>

NextExports ==
    \/ Next
    \/ ExportAgain
    \/ OtherExportEnds

ExportsSpec == InitExports /\ [][NextExports]_vars

----------------------------------------------------------------------------
(* The export under every theme identifier, with and without a background *)

\* the slide of the example: title "intro", bullets "a" and "b"
IntroSlide ==
    [title |-> <<"i", "n", "t", "r", "o">>, content |-> << <<"a">>, <<"b">> >>,
     imageKeyword |-> <<"k", "4">>]

\* a slide without bullets, with speaker notes
NotesSlide ==
    [title |-> <<" ", "a">>, content |-> <<>>, imageKeyword |-> <<"k", "5">>,
     speakerNotes |-> <<" ", "b">>]

LayoutDecks ==
    { [mainTitle |-> <<" ", "i", " ">>, subTitle |-> <<"b", " ">>, slides |-> sl,
       includeImages |-> inc]
        : sl \in UNION {SeqsOfLen({IntroSlide, NotesSlide}, n) : n \in 0..MaxSlides},
          inc \in BOOLEAN }

InitLayout ==
    /\ presentation \in LayoutDecks
    /\ imageSeeds = <<>>
    /\ customSlideImages \in {[k \in D |-> Upload(k)] : D \in SUBSET {0}}
    /\ isExporting = FALSE
    /\ UiAtRest
    /\ themeId \in ThemeIds
    /\ customBackground \in Backgrounds
    /\ ExportIdle
    /\ sanPc = "off"
    /\ sanIn = <<>>
    /\ sanOut = <<>>
    /\ sanAgain = <<>>
    /\ FileNameOff

LayoutSpec == InitLayout /\ [][Next]_vars

----------------------------------------------------------------------------
(* The sanitizeText harness: every text up to MaxLen, sanitized twice *)

RECURSIVE TextsOfLen(_)
TextsOfLen(n) ==
    IF n = 0 THEN {<<>>}
    ELSE {<<c>> \o t : c \in Alphabet, t \in TextsOfLen(n - 1)}

Texts == UNION {TextsOfLen(n) : n \in 0..MaxLen}

InitSanitize ==
    /\ presentation = [mainTitle |-> <<>>, slides |-> <<>>, includeImages |-> FALSE]
    /\ imageSeeds = <<>>
    /\ customSlideImages = <<>>
    /\ isExporting = FALSE
    /\ UiAtRest
    /\ themeId = PRESENTATION_THEMES[1].id
    /\ customBackground = NullUri
    /\ ExportIdle
    /\ sanPc = "input"
    /\ sanIn \in Texts \cup {Undefined}
    /\ sanOut = <<>>
    /\ sanAgain = <<>>
    /\ FileNameOff

SanitizeOnce ==
    /\ sanPc = "input"
    /\ sanOut' = sanitizeText(sanIn)
    /\ sanPc' = "once"
    /\ UNCHANGED <<sanIn, sanAgain, viewerVars, exportVars, fnVars, others>>

SanitizeAgain ==
    /\ sanPc = "once"
    /\ sanAgain' = sanitizeText(sanOut)
    /\ sanPc' = "twice"
    /\ UNCHANGED <<sanIn, sanOut, viewerVars, exportVars, fnVars, others>>

NextSanitize == SanitizeOnce \/ SanitizeAgain

SanitizeSpec == InitSanitize /\ [][NextSanitize]_vars

----------------------------------------------------------------------------
(* The file name harness: main titles up to and beyond STEM_LENGTH *)

\* longest run of one repeated character in a main title
MaxRun == 31
\* longest text before the run
MaxPrefix == 2

\* characters of the main titles: allow-listed ones of every class, and
\* three that are stripped
TitleAlphabet == {"a", "Z", "7", " ", "ya", "Zhe", "yo", "!"}

\* n times the character c
RECURSIVE Run(_, _)
Run(c, n) == IF n = 0 THEN <<>> ELSE <<c>> \o Run(c, n - 1)

\* a short text, a run of one character, and at most one character after it
Titles ==
    { pre \o Run(c, n) \o post :
        pre \in UNION {SeqsOfLen(TitleAlphabet, k) : k \in 0..MaxPrefix},
        c \in {"a", "!"}, n \in 0..MaxRun,
        post \in UNION {SeqsOfLen(TitleAlphabet, k) : k \in 0..1} }

InitFileName ==
    /\ presentation = [mainTitle |-> <<>>, slides |-> <<>>, includeImages |-> FALSE]
    /\ imageSeeds = <<>>
    /\ customSlideImages = <<>>
    /\ isExporting = FALSE
    /\ UiAtRest
    /\ themeId = PRESENTATION_THEMES[1].id
    /\ customBackground = NullUri
    /\ ExportIdle
    /\ sanPc = "off"
    /\ sanIn = <<>>
    /\ sanOut = <<>>
    /\ sanAgain = <<>>
    /\ fnPc = "input"
    /\ fnIn \in Titles
    /\ fnOut = <<>>

DeriveFileName ==
    /\ fnPc = "input"
    /\ fnOut' = safeTitle(fnIn)
    /\ fnPc' = "done"
    /\ UNCHANGED <<fnIn, viewerVars, exportVars, sanVars, others>>

FileNameSpec == InitFileName /\ [][DeriveFileName]_vars

----------------------------------------------------------------------------
(* The application and the viewer: App.tsx, SlideViewer.tsx, geminiService *)

\* most SlideViewer instances mounted in a behaviour
MaxViewers == 2
\* most messages of a chat
MaxChat == 5

\* slides the generation returns, and the slide the assistant inserts
SlideA == [title |-> <<"a">>, content |-> << <<"a">> >>, imageKeyword |-> <<"k", "1">>]
SlideB == [title |-> <<"b">>, content |-> << <<"b">> >>, imageKeyword |-> <<"k", "2">>,
           speakerNotes |-> <<"a">>]
SlideC == [title |-> <<"a", "b">>, content |-> <<>>, imageKeyword |-> <<"k", "3">>]

\* JSON.parse(text) of a generation response
GeneratedData ==
    { [mainTitle |-> <<"a">>, slides |-> <<SlideA>>],
      [mainTitle |-> <<"a">>, subTitle |-> <<"b">>, slides |-> <<SlideA, SlideB>>] }

\* how a call of the service fails: the key is missing or is not defined, the
\* request is rejected, the response has no text, the text is no JSON
Failures == {"api_key", "service_error", "empty", "not_json"}

\* a plausible slip: the failure leaves no message
GenerationError_NoMessage(kind) == NoError

\* err.message of a failed generation: the error of line 30 reaches the
\* caller as it is, every error inside the try is replaced at line 105
GenerationError(kind) ==
    IF kind = "api_key" THEN "api key" ELSE "generation failed, try again"

\* return { ...data, includeImages }
generatePresentationContent(data, includeImages) ==
    ("includeImages" :> includeImages) @@ data

\* JSON.parse(text) of an edit response to the deck sent: the first slide
\* removed, a slide inserted in front, or the main title changed; the
\* assistant's includeImages is the opposite of the deck's
UpdatedData(base) ==
    LET raw == [base EXCEPT !.includeImages = ~base.includeImages] IN
    (IF Len(base.slides) > 0
     THEN {[raw EXCEPT !.slides = Tail(base.slides)]} ELSE {})
    \cup (IF Len(base.slides) < MaxSlides
          THEN {[raw EXCEPT !.slides = <<SlideC>> \o base.slides]} ELSE {})
    \cup {[raw EXCEPT !.mainTitle = <<"b">>]}

\* a plausible slip: the response is returned as it was parsed
updatePresentation_Raw(currentPresentation, updatedData) == updatedData

\* return { ...updatedData, includeImages: currentPresentation.includeImages }
updatePresentation(currentPresentation, updatedData) ==
    ("includeImages" :> currentPresentation.includeImages) @@ updatedData

\* the state of a SlideViewer instance
ViewerState ==
    [imageSeeds |-> imageSeeds, customSlideImages |-> customSlideImages,
     customBackground |-> customBackground, isExporting |-> isExporting,
     currentSlideIndex |-> currentSlideIndex, isUpdating |-> isUpdating,
     chatMessages |-> chatMessages, edits |-> edits, viewerId |-> viewerId,
     isChatOpen |-> isChatOpen, keyListener |-> keyListener]

\* the EditableTexts of the cover of deck p, just mounted
CoverMounted(p) == [f \in CoverFields |-> Mounted(FieldValue(p, f))]

\* the state of a SlideViewer that was just mounted with deck p
FreshViewer(p) ==
    [imageSeeds |-> <<>>, customSlideImages |-> <<>>, customBackground |-> NullUri,
     isExporting |-> FALSE, currentSlideIndex |-> 0, isUpdating |-> FALSE,
     chatMessages |-> <<Greeting>>, edits |-> CoverMounted(p),
     viewerId |-> viewerId + 1, isChatOpen |-> FALSE,
     keyListener |-> Registered(p, 0, FALSE)]

\* no SlideViewer is mounted
NoViewer ==
    [imageSeeds |-> <<>>, customSlideImages |-> <<>>, customBackground |-> NullUri,
     isExporting |-> FALSE, currentSlideIndex |-> 0, isUpdating |-> FALSE,
     chatMessages |-> <<Greeting>>, edits |-> NoEdits, viewerId |-> viewerId,
     isChatOpen |-> FALSE, keyListener |-> Registered(Null, 0, FALSE)]

\* the EditableTexts of the cover when page index is shown: none off the
\* cover, fresh ones when the cover was not shown before, otherwise
\* useEffect(() => setTempValue(value), [value])
EditsAfter(old, new, oldIndex, index) ==
    IF index # 0 THEN NoEdits
    ELSE IF oldIndex # 0 THEN CoverMounted(new)
    ELSE [f \in CoverFields |->
            IF FieldValue(new, f) # FieldValue(old, f)
            THEN [edits[f] EXCEPT !.tempValue = FieldValue(new, f)]
            ELSE edits[f]]

\* the mounted SlideViewer is given a new deck: the effect of line 134 goes
\* back to the cover when the number of slides changed and the page shown is
\* beyond the last slide; the effect of line 162 registers a new keydown
\* listener only when currentSlideIndex or isChatOpen changed
Rerendered(new) ==
    LET index == IF /\ Len(new.slides) # Len(presentation.slides)
                    /\ currentSlideIndex > Len(new.slides)
                 THEN 0 ELSE currentSlideIndex
    IN [ViewerState EXCEPT !.currentSlideIndex = index,
                           !.edits = EditsAfter(presentation, new,
                                                currentSlideIndex, index),
                           !.keyListener = IF index # currentSlideIndex
                                           THEN Registered(new, index, isChatOpen)
                                           ELSE keyListener]

\* the state of the viewer after App's setPresentation(new): App renders a
\* SlideViewer exactly when the deck is not null
AfterSetPresentation(new) ==
    IF new = Null THEN NoViewer
    ELSE IF presentation = Null THEN FreshViewer(new)
    ELSE Rerendered(new)

\* the viewer's variables take the values of v
Assign(v) ==
    /\ imageSeeds' = v.imageSeeds
    /\ customSlideImages' = v.customSlideImages
    /\ customBackground' = v.customBackground
    /\ isExporting' = v.isExporting
    /\ currentSlideIndex' = v.currentSlideIndex
    /\ isUpdating' = v.isUpdating
    /\ chatMessages' = v.chatMessages
    /\ edits' = v.edits
    /\ viewerId' = v.viewerId
    /\ isChatOpen' = v.isChatOpen
    /\ keyListener' = v.keyListener

\* setPresentation(new) mounts a SlideViewer
Mounts(new) == presentation = Null /\ new # Null

\* the theme identifiers the configuration form offers
ConfigThemeIds == {PRESENTATION_THEMES[1].id, PRESENTATION_THEMES[2].id}

\* App.handleGenerate up to its await; the form is shown when there is no
\* deck and its button is disabled while isLoading
handleGenerate ==
    /\ presentation = Null
    /\ ~isLoading
    /\ \E id \in ConfigThemeIds, includeImages \in BOOLEAN :
        /\ themeId' = id
        /\ gen' = [pending |-> TRUE, includeImages |-> includeImages]
    /\ isLoading' = TRUE
    /\ error' = NoError
    /\ UNCHANGED <<presentation, imageSeeds, customSlideImages, isExporting,
                   customBackground, wasReset, chatVars, currentSlideIndex, navVars,
                   editVars, exportVars, harnessVars, others>>

\* generatePresentationContent resolves: setPresentation(result), and finally
\* setIsLoading(false)
GenerateSucceeds ==
    /\ gen.pending
    /\ \E data \in GeneratedData :
        LET result == generatePresentationContent(data, gen.includeImages) IN
        /\ Mounts(result) => viewerId < MaxViewers
        /\ presentation' = result
        /\ Assign(AfterSetPresentation(result))
    /\ isLoading' = FALSE
    /\ gen' = NoGen
    /\ wasReset' = FALSE
    /\ UNCHANGED <<error, themeId, requests, lastCommit, exportVars, harnessVars, others>>

\* generatePresentationContent rejects: setError(err.message || ...), and
\* finally setIsLoading(false)
GenerateFails ==
    /\ gen.pending
    /\ \E kind \in Failures : error' = GenerationError(kind)
    /\ isLoading' = FALSE
    /\ gen' = NoGen
    /\ UNCHANGED <<presentation, imageSeeds, customSlideImages, isExporting,
                   styleVars, wasReset, chatVars, currentSlideIndex, navVars, editVars,
                   exportVars, harnessVars, others>>

\* App.handleReset, the viewer's reset button: setPresentation(null),
\* setError(null)
handleReset ==
    /\ presentation # Null
    /\ presentation' = Null
    /\ Assign(AfterSetPresentation(Null))
    /\ error' = NoError
    /\ wasReset' = TRUE
    /\ UNCHANGED <<isLoading, gen, themeId, requests, lastCommit, exportVars,
                   harnessVars, others>>

\* the texts typed into the chat input
ChatInputs == {<<>>, <<" ">>, <<"a">>}

\* handleSendMessage up to its await: nothing for a blank input or while
\* updating; otherwise the user's message is appended and updatePresentation
\* is called with the deck shown
handleSendMessage ==
    /\ presentation # Null
    /\ \E chatInput \in ChatInputs :
        IF Trim(chatInput) = <<>> \/ isUpdating
        THEN UNCHANGED <<chatMessages, isUpdating, requests>>
        ELSE /\ Len(chatMessages) + 2 <= MaxChat
             /\ chatMessages' = Append(chatMessages, "user")
             /\ isUpdating' = TRUE
             /\ requests' = requests \cup {[viewer |-> viewerId, base |-> presentation]}
    /\ UNCHANGED <<presentation, imageSeeds, customSlideImages, isExporting,
                   styleVars, appVars, viewerId, currentSlideIndex, navVars, editVars,
                   exportVars, harnessVars, others>>

\* the SlideViewer that sent request r is still mounted
Live(r) == presentation # Null /\ r.viewer = viewerId

\* updatePresentation resolves: onUpdate(updatedPresentation), which is
\* App.handleUpdate, then the confirmation is appended and setIsUpdating(false);
\* the state setters of a viewer that is no longer mounted do nothing
UpdateSucceeds ==
    \E r \in requests : \E data \in UpdatedData(r.base) :
        LET updated == updatePresentation(r.base, data)
            v == AfterSetPresentation(updated)
        IN /\ Mounts(updated) => viewerId < MaxViewers
           /\ presentation' = updated
           /\ Assign(IF Live(r)
                     THEN [v EXCEPT !.chatMessages = Append(@, "done"),
                                    !.isUpdating = FALSE]
                     ELSE v)
           /\ requests' = requests \ {r}
           /\ UNCHANGED <<appVars, themeId, lastCommit, exportVars, harnessVars, others>>

\* updatePresentation rejects: the apology is appended and
\* setIsUpdating(false); onUpdate is not called
UpdateFails ==
    \E r \in requests, kind \in Failures :
        /\ requests' = requests \ {r}
        /\ IF Live(r)
           THEN /\ chatMessages' = Append(chatMessages, "error")
                /\ isUpdating' = FALSE
           ELSE UNCHANGED <<chatMessages, isUpdating>>
        /\ UNCHANGED <<presentation, imageSeeds, customSlideImages, isExporting,
                       styleVars, appVars, viewerId, currentSlideIndex, navVars, editVars,
                       exportVars, harnessVars, others>>

\* an EditableText has the focus
Editing == \E f \in CoverFields : edits[f].isEditing

\* setCurrentSlideIndex(index) by a button, a key or a thumbnail; a focused
\* EditableText is blurred first
GoTo(index) ==
    /\ ~Editing
    /\ currentSlideIndex' = index
    /\ edits' = EditsAfter(presentation, presentation, currentSlideIndex, index)
    /\ keyListener' = IF index # currentSlideIndex
                       THEN Registered(presentation, index, isChatOpen)
                       ELSE keyListener
    /\ UNCHANGED <<isChatOpen, presentation, imageSeeds, customSlideImages, isExporting,
                   styleVars, appVars, chatVars, lastCommit, exportVars, harnessVars, others>>

nextSlide ==
    /\ presentation # Null
    /\ currentSlideIndex < Len(presentation.slides)
    /\ GoTo(currentSlideIndex + 1)

prevSlide ==
    /\ presentation # Null
    /\ currentSlideIndex > 0
    /\ GoTo(currentSlideIndex - 1)

\* a click on the thumbnail of the cover or of a slide
SelectThumbnail ==
    /\ presentation # Null
    /\ \E index \in 0..Len(presentation.slides) :
        index # currentSlideIndex /\ GoTo(index)

\* the keys of the model: e.key is " " for the space bar
Keys == {"ArrowRight", "ArrowLeft", " "}

\* handleKeyDown of the registered listener: nothing while an input or a
\* textarea has the focus or while the chat was open when the listener was
\* registered; nextSlide and prevSlide are the ones of the render that
\* registered the listener, their setCurrentSlideIndex(prev => ...) acts on
\* the page index of now
KeyDown ==
    /\ presentation # Null
    /\ ~Editing
    /\ \E key \in Keys :
        IF keyListener.isChatOpen THEN UNCHANGED vars
        ELSE IF /\ key \in {"ArrowRight", "Space"}
                /\ keyListener.currentSlideIndex < keyListener.slidesLength
        THEN GoTo(currentSlideIndex + 1)
        ELSE IF key = "ArrowLeft" /\ keyListener.currentSlideIndex > 0
        THEN GoTo(currentSlideIndex - 1)
        ELSE UNCHANGED vars

\* the chat button: setIsChatOpen(!isChatOpen)
ToggleChat ==
    /\ presentation # Null
    /\ ~Editing
    /\ isChatOpen' = ~isChatOpen
    /\ keyListener' = Registered(presentation, currentSlideIndex, ~isChatOpen)
    /\ UNCHANGED <<presentation, imageSeeds, customSlideImages, isExporting,
                   styleVars, appVars, chatVars, currentSlideIndex, editVars,
                   exportVars, harnessVars, others>>

\* the chat form, which is rendered while the chat is open, is submitted
SubmitChat == isChatOpen /\ handleSendMessage

\* handleBackgroundChange and the onload of its FileReader
handleBackgroundChange ==
    /\ presentation # Null
    /\ customBackground' = BackgroundUpload
    /\ UNCHANGED <<presentation, imageSeeds, customSlideImages, isExporting, themeId,
                   uiVars, exportVars, harnessVars, others>>

\* clearCustomBackground; its button is shown when there is a background
clearCustomBackground ==
    /\ presentation # Null
    /\ customBackground # NullUri
    /\ customBackground' = NullUri
    /\ UNCHANGED <<presentation, imageSeeds, customSlideImages, isExporting, themeId,
                   uiVars, exportVars, harnessVars, others>>

\* the page shown is the page of a slide: slideData is defined
ShowsSlide ==
    /\ presentation # Null
    /\ currentSlideIndex >= 1
    /\ currentSlideIndex <= Len(presentation.slides)

\* the image the user uploads while a slide is shown
UploadFor(slide) == DataUri("image", <<"upload">> \o slide.imageKeyword)

\* handleSlideImageChange and the onload of its FileReader; the image block is
\* rendered when the deck includes images
handleSlideImageChange ==
    /\ ShowsSlide
    /\ presentation.includeImages
    /\ customSlideImages' =
        ((currentSlideIndex - 1) :> UploadFor(presentation.slides[currentSlideIndex]))
            @@ customSlideImages
    /\ UNCHANGED <<presentation, imageSeeds, isExporting, styleVars, uiVars,
                   exportVars, harnessVars, others>>

\* `${slideData.imageKeyword}-${Math.random()...}`
NewSeed(slide) == slide.imageKeyword \o <<"-", "r">>

\* a plausible slip: the uploaded image is kept
Delete_Kept(obj, key) == obj

\* obj without the property key
Delete(obj, key) == [k \in DOMAIN obj \ {key} |-> obj[k]]

\* refreshImage: it returns at once when no slide is shown; otherwise the
\* uploaded image of the slide shown is deleted and a new seed is stored for
\* its index.  Its buttons are rendered when the deck includes images.
refreshImage ==
    /\ presentation # Null
    /\ IF ~ShowsSlide THEN UNCHANGED vars
       ELSE /\ presentation.includeImages
            /\ customSlideImages' = Delete(customSlideImages, currentSlideIndex - 1)
            /\ imageSeeds' =
                ((currentSlideIndex - 1) :> NewSeed(presentation.slides[currentSlideIndex]))
                    @@ imageSeeds
            /\ UNCHANGED <<presentation, isExporting, styleVars, uiVars, exportVars,
                           harnessVars, others>>

\* the remote image of a seed in a size
Picsum(seed, size) == [seed |-> seed, size |-> size]

\* a plausible slip: a regenerated seed shadows the uploaded image
ThumbnailSrc_SeedFirst(k) ==
    IF TruthyText(Lookup(imageSeeds, k, Undefined))
    THEN Picsum(imageSeeds[k], "160/90?blur=2")
    ELSE IF TruthyUri(Lookup(customSlideImages, k, UndefinedUri))
    THEN [data |-> customSlideImages[k]]
    ELSE Picsum(presentation.slides[k + 1].imageKeyword, "160/90?blur=2")

\* src of the sidebar thumbnail of slide index k
ThumbnailSrc(k) ==
    IF TruthyUri(Lookup(customSlideImages, k, UndefinedUri))
    THEN [data |-> customSlideImages[k]]
    ELSE Picsum(IF TruthyText(Lookup(imageSeeds, k, Undefined))
                THEN imageSeeds[k] ELSE presentation.slides[k + 1].imageKeyword,
                "160/90?blur=2")

\* src of the image of the slide shown on the screen
SlideImageSrc ==
    IF TruthyUri(Lookup(customSlideImages, currentSlideIndex - 1, UndefinedUri))
    THEN [data |-> customSlideImages[currentSlideIndex - 1]]
    ELSE Picsum(IF TruthyText(Lookup(imageSeeds, currentSlideIndex - 1, Undefined))
                THEN imageSeeds[currentSlideIndex - 1]
                ELSE presentation.slides[currentSlideIndex].imageKeyword,
                "800/1200")

\* src of the image of slide index k in the print layout
PrintSrc(k) ==
    IF TruthyUri(Lookup(customSlideImages, k, UndefinedUri))
    THEN [data |-> customSlideImages[k]]
    ELSE Picsum(IF TruthyText(Lookup(imageSeeds, k, Undefined))
                THEN imageSeeds[k] ELSE presentation.slides[k + 1].imageKeyword,
                "800/1200")

\* the image downloadPPTX takes for slide index k when it is called now: the
\* uploaded one, or the one at the url of line 160
ExportSrc(k) ==
    LET a == [presentation |-> presentation, imageSeeds |-> imageSeeds,
              customSlideImages |-> customSlideImages]
    IN IF TruthyUri(CustomImage(a, k))
       THEN [data |-> CustomImage(a, k)]
       ELSE Picsum(ImageSeed(a, k), "800/800")

\* the texts the user types into a field
TypedTexts == {<<"b">>, <<"b", " ">>}

\* the EditableText rendered without the multiline prop
SingleLine == {"subTitle"}

\* a click on the text of a field of the cover: setIsEditing(true)
ClickToEdit ==
    /\ presentation # Null
    /\ currentSlideIndex = 0
    /\ ~Editing
    /\ \E f \in CoverFields : edits' = [edits EXCEPT ![f].isEditing = TRUE]
    /\ UNCHANGED <<presentation, imageSeeds, customSlideImages, isExporting,
                   styleVars, appVars, chatVars, currentSlideIndex, navVars, lastCommit,
                   exportVars, harnessVars, others>>

\* the user replaces the text of the focused field: setTempValue
TypeText ==
    /\ \E f \in CoverFields, t \in TypedTexts :
        /\ edits[f].isEditing
        /\ edits' = [edits EXCEPT ![f].tempValue = t]
    /\ UNCHANGED <<presentation, imageSeeds, customSlideImages, isExporting,
                   styleVars, appVars, chatVars, currentSlideIndex, navVars, lastCommit,
                   exportVars, harnessVars, others>>

\* updateMainTitle, updateSubTitle: { ...presentation, field: newVal }
WithField(p, field, newVal) == (field :> newVal) @@ p

\* handleBlur of the EditableText of field f: setIsEditing(false), and
\* onChange(tempValue) if tempValue.trim() !== value; onChange is
\* updateMainTitle or updateSubTitle, which call onUpdate
Commit(f, by) ==
    LET value == FieldValue(presentation, f)
        tempValue == edits[f].tempValue
        newDeck == WithField(presentation, f, tempValue)
    IN /\ lastCommit' = [by |-> by, field |-> f, onChange |-> Trim(tempValue) # value,
                         same |-> tempValue = value]
       /\ IF Trim(tempValue) # value
          THEN /\ presentation' = newDeck
               /\ Assign([Rerendered(newDeck) EXCEPT !.edits[f].isEditing = FALSE])
          ELSE /\ edits' = [edits EXCEPT ![f].isEditing = FALSE]
               /\ UNCHANGED <<presentation, imageSeeds, customSlideImages,
                              isExporting, customBackground, currentSlideIndex, navVars,
                              isUpdating, chatMessages, viewerId>>
       /\ UNCHANGED <<appVars, themeId, requests, exportVars, harnessVars, others>>

\* const slideData = !isCover ? presentation.slides[currentSlideIndex - 1] : null
slideData == presentation.slides[currentSlideIndex]

\* onUpdate(newDeck), which is App.handleUpdate: setPresentation(newDeck)
onUpdate(newDeck) ==
    /\ presentation' = newDeck
    /\ Assign(Rerendered(newDeck))
    /\ UNCHANGED <<appVars, themeId, requests, lastCommit, exportVars, harnessVars, others>>

\* newSlides[currentSlideIndex - 1] = slide; { ...presentation, slides: newSlides }
WithSlide(p, index, slide) == [p EXCEPT !.slides[index] = slide]

\* the text an EditableText hands to its onChange
NewVals == {<<"b", " ">>}

\* updateMainTitle(newVal), the onChange of the EditableText of the main
\* title, which is rendered on the cover
updateMainTitle ==
    /\ presentation # Null
    /\ currentSlideIndex = 0
    /\ ~Editing
    /\ \E newVal \in NewVals : onUpdate(WithField(presentation, "mainTitle", newVal))

\* updateSubTitle(newVal), the onChange of the EditableText of the subtitle
updateSubTitle ==
    /\ presentation # Null
    /\ currentSlideIndex = 0
    /\ ~Editing
    /\ \E newVal \in NewVals : onUpdate(WithField(presentation, "subTitle", newVal))

\* a plausible slip: the new bullet is added after the others
newContent_Appended(content, index, newVal) == Append(content, newVal)

\* const newContent = [...slideData.content]; newContent[index] = newVal
newContent(content, index, newVal) == [content EXCEPT ![index + 1] = newVal]

\* updateSlideTitle(newVal), the onChange of the EditableText of the slide's
\* title; it returns at once when no slide is shown
updateSlideTitle ==
    /\ presentation # Null
    /\ ~Editing
    /\ \E newVal \in NewVals :
        IF ~ShowsSlide THEN UNCHANGED vars
        ELSE onUpdate(WithSlide(presentation, currentSlideIndex,
                                ("title" :> newVal) @@ slideData))

\* updateSlideContent(index, newVal), the onChange of the EditableText of
\* bullet index of the slide shown
updateSlideContent ==
    /\ presentation # Null
    /\ ~Editing
    /\ \E newVal \in NewVals :
        IF ~ShowsSlide THEN UNCHANGED vars
        ELSE \E index \in 0..(Len(slideData.content) - 1) :
                onUpdate(WithSlide(presentation, currentSlideIndex,
                                   ("content" :> newContent(slideData.content, index, newVal))
                                       @@ slideData))

\* updateSpeakerNotes(newVal), the onChange of the EditableText of the
\* speaker notes, which is rendered when the slide shown has notes
updateSpeakerNotes ==
    /\ presentation # Null
    /\ ~Editing
    /\ \E newVal \in NewVals :
        IF ~ShowsSlide THEN UNCHANGED vars
        ELSE /\ TruthyText(Prop(slideData, "speakerNotes"))
             /\ onUpdate(WithSlide(presentation, currentSlideIndex,
                                   ("speakerNotes" :> newVal) @@ slideData))

\* the focused field loses the focus
handleBlur ==
    \E f \in CoverFields : edits[f].isEditing /\ Commit(f, "blur")

\* Enter in the focused field: handleBlur in a single-line field; in a
\* multiline field the textarea takes the line break into tempValue
PressEnter ==
    \E f \in CoverFields :
        /\ edits[f].isEditing
        /\ IF f \in SingleLine
           THEN Commit(f, "enter")
           ELSE /\ Len(edits[f].tempValue) < MaxLen
                /\ edits' = [edits EXCEPT ![f].tempValue = Append(@, "\n")]
                /\ UNCHANGED <<presentation, imageSeeds, customSlideImages,
                               isExporting, styleVars, appVars, chatVars,
                               currentSlideIndex, navVars, lastCommit, exportVars,
                               harnessVars, others>>

\* the application after loading: no deck, the configuration form is shown
InitApp ==
    /\ presentation = Null
    /\ imageSeeds = <<>>
    /\ customSlideImages = <<>>
    /\ isExporting = FALSE
    /\ AppFresh
    /\ ChatFresh
    /\ viewerId = 0
    /\ requests = {}
    /\ edits = NoEdits
    /\ lastCommit = NoCommit
    /\ themeId = PRESENTATION_THEMES[1].id
    /\ customBackground = NullUri
    /\ ExportIdle
    /\ sanPc = "off"
    /\ sanIn = <<>>
    /\ sanOut = <<>>
    /\ sanAgain = <<>>
    /\ FileNameOff

\* generation, reset and the assistant
NextApp ==
    \/ handleGenerate
    \/ GenerateSucceeds
    \/ GenerateFails
    \/ handleReset
    \/ handleSendMessage
    \/ UpdateSucceeds
    \/ UpdateFails

AppSpec == InitApp /\ [][NextApp]_vars

\* the application after a generation succeeded: the first SlideViewer was
\* mounted with the deck
InitViewerOf(responses) ==
    /\ \E data \in responses, includeImages \in BOOLEAN :
        presentation = generatePresentationContent(data, includeImages)
    /\ imageSeeds = <<>>
    /\ customSlideImages = <<>>
    /\ isExporting = FALSE
    /\ AppFresh
    /\ ChatFresh
    /\ viewerId = 1
    /\ requests = {}
    /\ edits = CoverMounted(presentation)
    /\ lastCommit = NoCommit
    /\ themeId \in ConfigThemeIds
    /\ customBackground = NullUri
    /\ ExportIdle
    /\ sanPc = "off"
    /\ sanIn = <<>>
    /\ sanOut = <<>>
    /\ sanAgain = <<>>
    /\ FileNameOff

InitViewer == InitViewerOf(GeneratedData)

\* one viewer: navigation, the images of the slides and the assistant
NextViewer ==
    \/ nextSlide
    \/ prevSlide
    \/ SelectThumbnail
    \/ handleSlideImageChange
    \/ refreshImage
    \/ handleSendMessage
    \/ UpdateSucceeds
    \/ UpdateFails

ViewerSpec == InitViewer /\ [][NextViewer]_vars

\* one viewer: the editable fields of the cover
\* one viewer: navigation by buttons, keys and thumbnails, the chat panel and
\* the assistant
NextNav ==
    \/ nextSlide
    \/ prevSlide
    \/ KeyDown
    \/ SelectThumbnail
    \/ ToggleChat
    \/ SubmitChat
    \/ UpdateSucceeds
    \/ UpdateFails

NavSpec == InitViewer /\ [][NextNav]_vars

\* the manual edits of the cover and of the slides, and navigation
NextManual ==
    \/ nextSlide
    \/ prevSlide
    \/ ClickToEdit
    \/ TypeText
    \/ handleBlur
    \/ PressEnter
    \/ updateSlideTitle
    \/ updateSlideContent
    \/ updateSpeakerNotes

ManualSpec == InitViewer /\ [][NextManual]_vars

\* one viewer: manual edits of the cover and of the slides while the
\* assistant works
NextAssist ==
    \/ nextSlide
    \/ prevSlide
    \/ updateMainTitle
    \/ updateSubTitle
    \/ updateSlideTitle
    \/ updateSlideContent
    \/ updateSpeakerNotes
    \/ handleSendMessage
    \/ UpdateSucceeds
    \/ UpdateFails

\* a deck of one slide with speaker notes was generated
InitAssist ==
    InitViewerOf({[mainTitle |-> <<"a">>, subTitle |-> <<"b">>, slides |-> <<SlideB>>]})

AssistSpec == InitAssist /\ [][NextAssist]_vars

\* what the user and the assistant do while an export waits for an image
WhileFetching ==
    \/ nextSlide
    \/ prevSlide
    \/ updateMainTitle
    \/ updateSubTitle
    \/ updateSlideTitle
    \/ updateSlideContent
    \/ updateSpeakerNotes
    \/ handleSlideImageChange
    \/ refreshImage
    \/ handleBackgroundChange
    \/ clearCustomBackground
    \/ handleSendMessage
    \/ UpdateSucceeds
    \/ UpdateFails

\* one export of a generated deck, and the viewer while it is fetching
NextSnapshot ==
    \/ pc = "idle" /\ handleDownloadPPTX
    \/ pc = "fetch" /\ WhileFetching
    \/ ResponseArrives
    \/ NetworkError
    \/ BodyArrives
    \/ BodyFails
    \/ ReaderLoadEnd
    \/ ReaderError
    \/ WriteFileDone
    \/ WriteFileFails

\* a deck of one slide generated with images, in the first theme, after the
\* assistant has answered one request by changing the main title
InitSnapshot ==
    /\ presentation = generatePresentationContent(
                        [mainTitle |-> <<"b">>, subTitle |-> <<"b">>,
                         slides |-> <<SlideB>>], TRUE)
    /\ imageSeeds = <<>>
    /\ customSlideImages = <<>>
    /\ isExporting = FALSE
    /\ AppFresh
    /\ isChatOpen = FALSE
    /\ keyListener = Registered(presentation, 0, FALSE)
    /\ isUpdating = FALSE
    /\ chatMessages = <<Greeting, "user", "done">>
    /\ currentSlideIndex = 0
    /\ viewerId = 1
    /\ requests = {}
    /\ edits = CoverMounted(presentation)
    /\ lastCommit = NoCommit
    /\ themeId = PRESENTATION_THEMES[1].id
    /\ customBackground = NullUri
    /\ ExportIdle
    /\ sanPc = "off"
    /\ sanIn = <<>>
    /\ sanOut = <<>>
    /\ sanAgain = <<>>
    /\ FileNameOff

SnapshotSpec == InitSnapshot /\ [][NextSnapshot]_vars

NextEdit ==
    \/ ClickToEdit
    \/ TypeText
    \/ handleBlur
    \/ PressEnter

EditSpec == InitViewer /\ [][NextEdit]_vars

----------------------------------------------------------------------------
(* Claims about the export, checked under Spec *)

\* the number of slides of the deck being exported
N == Len(args.presentation.slides)

\* the data of the image blocks of a page
PageImages(pg) ==
    {pg.objects[j].data : j \in {n \in 1..Len(pg.objects) : pg.objects[n].op = "image"}}

\* the page of slide index k is finished: the loop has moved past it
PageComplete(k) == k < i \/ pc \in {"write", "done"}

\* the fetch of a log entry ended without an image: it ended in an error, or
\* its payload does not declare an image type
FetchFailed(e) ==
    \/ e.outcome \in Endings \ {"loaded"}
    \/ e.outcome = "loaded" /\ e.result.mime # "image"

\* the export step taken is one of downloadPPTX after its start
ExportStep ==
    \/ Tick \/ TimerFires \/ ResponseArrives \/ NetworkError \/ BodyArrives
    \/ BodyFails \/ ReaderLoadEnd \/ ReaderError \/ WriteFileDone \/ WriteFileFails

\* C1: a slide whose image fetch ended in a timeout, a non-2xx response, a
\* network error, a read error or a payload that is no image has a page without
\* an image block; the export goes on to the other pages and, once it is at the
\* file write, has produced every page; it is never abandoned at or before
\* that slide.
C1_FetchFailureDegrades ==
    \A n \in 1..Len(fetchLog) :
        FetchFailed(fetchLog[n]) =>
            LET k == fetchLog[n].index IN
            /\ Len(pages) >= k + 2
            /\ PageImages(pages[k + 2]) = {}
            /\ pc \in {"fetch", "write", "done", "rejected"}
            /\ pc = "rejected" =>
                    i > k /\ "content" \notin DOMAIN args.presentation.slides[i + 1]
            /\ pc \in {"write", "done"} => Len(pages) = N + 1

\* an export was written in which the fetch of the first slide loaded a
\* payload that is no image and the fetch of the second slide loaded an image
C1_Witness ==
    /\ pc = "done"
    /\ saved # <<>>
    /\ Len(fetchLog) = 2
    /\ fetchLog[1].outcome = "loaded"
    /\ fetchLog[1].result.mime = "text/html"
    /\ fetchLog[2].outcome = "loaded"
    /\ fetchLog[2].result.mime = "image"
    /\ PageImages(pages[3]) # {}

\* C2: every image fetch resolves within the 4-second bound, whatever the
\* remote service does: a fetch is never in flight for more than FETCH_TIMEOUT
\* seconds.
C2_FetchBounded ==
    fetch.phase # "none" => fetch.elapsed <= FETCH_TIMEOUT

\* C3 as stated: a fetch that gets no answer does not delay the rest of the
\* export: while it is in flight and time passes, the pages of the other
\* slides have been produced.
C3_RestNotDelayed ==
    (pc = "fetch" /\ fetch.phase = "connecting" /\ fetch.elapsed > 0)
        => Len(pages) = N + 1

\* the step in which the fetch in flight is ended by the abort timer
TimedOutStep ==
    /\ pc = "fetch"
    /\ fetchLog[Len(fetchLog)].outcome = "pending"
    /\ Len(fetchLog') >= Len(fetchLog)
    /\ fetchLog'[Len(fetchLog)].outcome = "timeout"

\* C3 as amended: a fetch that gets no answer is ended when FETCH_TIMEOUT
\* seconds have passed, its slide's page gets no image block and the export
\* goes on; while the fetch of slide i is in flight the pages after slide i
\* are not produced and no file is written: they wait for the fetch.
C3_TimeoutDelaysRest ==
    /\ [](pc = "fetch" => (Len(pages) = i + 2 /\ saved = <<>>))
    /\ [][TimedOutStep =>
            /\ fetch.elapsed = FETCH_TIMEOUT
            /\ PageImages(pages'[i + 2]) = {}
            /\ i' >= i
            /\ pc' = "rejected" => i' > i]_vars

\* the fetch of the first of two slides timed out, and the page of the second
\* slide was produced after it
C3_Witness ==
    /\ Len(fetchLog) >= 1
    /\ fetchLog[1].outcome = "timeout"
    /\ fetchLog[1].index = 0
    /\ N = 2
    /\ Len(pages) = 3
    /\ pc = "write"

\* the seed the export is to look the image of slide index k up with
ExpectedSeed(k) ==
    IF k \in DOMAIN args.imageSeeds
    THEN args.imageSeeds[k]
    ELSE args.presentation.slides[k + 1].imageKeyword

\* the log entries of slide index k
EntriesOf(k) == {n \in 1..Len(fetchLog) : fetchLog[n].index = k}

\* C4: with includeImages true, the image on the page of slide index i is the
\* custom image of index i when there is one, and then no fetch is issued for
\* i; otherwise one fetch is issued with imageSeeds[i], or with the slide's
\* imageKeyword when there is no seed for i, and the page carries the image it
\* loaded, or no image block when it loaded none.
C4_ImagePrecedence ==
    (pc # "idle" /\ args.presentation.includeImages) =>
        \A k \in 0..(N - 1) :
            IF k \in DOMAIN args.customSlideImages
            THEN /\ EntriesOf(k) = {}
                 /\ PageComplete(k) => PageImages(pages[k + 2]) = {args.customSlideImages[k]}
            ELSE /\ Cardinality(EntriesOf(k)) <= 1
                 /\ \A n \in EntriesOf(k) : fetchLog[n].seed = ExpectedSeed(k)
                 /\ PageComplete(k) =>
                        \E n \in EntriesOf(k) :
                            PageImages(pages[k + 2]) =
                                IF FetchFailed(fetchLog[n]) THEN {}
                                ELSE {PicsumImage(ExpectedSeed(k))}

\* an export was written of two slides: the first has an uploaded image and a
\* regenerated seed and carries the upload; the second has a regenerated seed
\* only and carries the image fetched with that seed
C4_Witness ==
    /\ pc = "done"
    /\ saved # <<>>
    /\ N = 2
    /\ args.presentation.includeImages
    /\ DOMAIN args.customSlideImages = {0}
    /\ DOMAIN args.imageSeeds = {0, 1}
    /\ PageImages(pages[2]) = {Upload(0)}
    /\ PageImages(pages[3]) = {PicsumImage(Seed(1))}

\* C5: an export of a deck with includeImages false issues no image fetch and
\* puts no image block on any page, whatever the override maps hold.
C5_NoImagesNoFetch ==
    (pc # "idle" /\ ~args.presentation.includeImages) =>
        /\ fetchLog = <<>>
        /\ fetch.phase = "none"
        /\ pc # "fetch"
        /\ \A n \in 1..Len(pages) : PageImages(pages[n]) = {}

\* an export of two slides with includeImages false was written while both
\* override maps had entries
C5_Witness ==
    /\ pc = "done"
    /\ saved # <<>>
    /\ ~args.presentation.includeImages
    /\ N = 2
    /\ DOMAIN args.customSlideImages = {0, 1}
    /\ DOMAIN args.imageSeeds = {0, 1}

\* C6: an export that reaches the file write has produced N + 1 pages for a
\* deck of N slides: the cover first, then the page of each slide in deck
\* order; the file written holds these pages.
C6_PageCount ==
    /\ pc # "idle" => Len(pages) <= N + 1
    /\ pc \in {"write", "done"} =>
        /\ Len(pages) = N + 1
        /\ pages[1].objects[1].box = "coverTitle"
        /\ \A k \in 1..N :
            /\ pages[k + 1].objects[1].box = "slideTitle"
            /\ pages[k + 1].objects[1].text = sanitizeText(args.presentation.slides[k].title)
        /\ saved # <<>> => saved[1].pages = pages

\* a deck of two slides with different titles was written as three pages
C6_Witness ==
    /\ pc = "done"
    /\ saved # <<>>
    /\ N = 2
    /\ Len(saved[1].pages) = 3
    /\ args.presentation.slides[1].title # args.presentation.slides[2].title

\* the export failed: it was abandoned, or the file was not written
ExportFailed == pc = "rejected" \/ (pc = "done" /\ saved = <<>>)

\* C7: when document assembly or the file write fails, the error is caught
\* inside the export, exactly one notification is raised and nothing
\* propagates to the caller of downloadPPTX.
C7_FailureCaught ==
    ExportFailed => (alerts = 1 /\ pc # "rejected")

\* C8: no step of an export changes the deck, the imageSeeds map or the
\* customSlideImages map of the viewer, nor the ones it was called with.
C8_ExportReadsOnly ==
    [][ExportStep =>
            /\ presentation' = presentation
            /\ imageSeeds' = imageSeeds
            /\ customSlideImages' = customSlideImages
            /\ args' = args]_vars

\* an export was written that had fetched the image of slide 0, and the map of
\* uploaded images still has no entry for slide 0
C8_Witness ==
    /\ pc = "done"
    /\ saved # <<>>
    /\ Len(fetchLog) >= 1
    /\ fetchLog[1].index = 0
    /\ ~FetchFailed(fetchLog[1])
    /\ PageImages(pages[2]) # {}
    /\ 0 \notin DOMAIN customSlideImages
    /\ presentation = args.presentation

----------------------------------------------------------------------------
(* Claims about sanitizeText, checked under SanitizeSpec *)

IsBlank(s) == \A k \in 1..Len(s) : s[k] \in WhiteSpace

\* C9: sanitizeText is idempotent: sanitizing a text that is already sanitized
\* gives the same text, sanitizeText(sanitizeText(s)) = sanitizeText(s).
C9_SanitizeIdempotent ==
    sanPc = "twice" => sanAgain = sanOut

\* a text with leading white space and a lower-case first letter was
\* sanitized twice, and sanitizing changed it
C9_Witness ==
    /\ sanPc = "twice"
    /\ sanIn = <<" ", "a", "\t">>
    /\ sanOut = <<"A">>

\* C10: sanitizeText returns the empty text for an empty, missing or
\* white-space-only argument; for any other argument it returns the argument
\* without its leading and trailing white space, its first remaining character
\* upper-cased and every later character as it was.
C10_SanitizeResult ==
    sanPc # "input" =>
        IF sanIn = Undefined \/ IsBlank(sanIn)
        THEN sanOut = <<>>
        ELSE \E lo, hi \in 1..Len(sanIn) :
                /\ lo <= hi
                /\ sanIn[lo] \notin WhiteSpace
                /\ sanIn[hi] \notin WhiteSpace
                /\ \A k \in 1..Len(sanIn) : (k < lo \/ k > hi) => sanIn[k] \in WhiteSpace
                /\ sanOut = ToUpperCase(sanIn[lo]) \o SubSeq(sanIn, lo + 1, hi)

\* a text with leading white space and two lower-case letters was sanitized:
\* only the first letter was upper-cased
C10_Witness ==
    /\ sanPc = "once"
    /\ sanIn = <<" ", "a", "a">>
    /\ sanOut = <<"A", "a">>

----------------------------------------------------------------------------
(* Claims about the text, the colours and the background of the document *)

\* the texts of the objects of a page that carry one text
PageTexts(pg) ==
    {pg.objects[j].text : j \in {n \in 1..Len(pg.objects) : "text" \in DOMAIN pg.objects[n]}}

\* the paragraphs of the bullet blocks of a page
PageParas(pg) ==
    UNION { {pg.objects[j].paras[n] : n \in 1..Len(pg.objects[j].paras)}
            : j \in {n \in 1..Len(pg.objects) : "paras" \in DOMAIN pg.objects[n]} }

\* the sanitized form of text t is t itself
IsSanitized(t) == sanitizeText(t) = t

\* C11: every text an export writes into the document is in its sanitized
\* form: the texts and the paragraphs of every page, and the title in the
\* document's metadata, which is taken from the deck's main title.
C11_AllTextSanitized ==
    pc # "idle" =>
        /\ \A n \in 1..Len(pages) :
                /\ \A t \in PageTexts(pages[n]) : IsSanitized(t)
                /\ \A t \in PageParas(pages[n]) : IsSanitized(t)
        /\ pres.title = sanitizeText(args.presentation.mainTitle)

\* the hex colours of the catalog entry with the given id
HexOf(id) == PRESENTATION_THEMES[FirstOf(ThemesWithId(id))].colors.hex

\* C12: on the page of every slide the title is the slide's sanitized title in
\* the theme's accent hex colour, and the bullet block has one paragraph per
\* element of the slide's content, in the same order, each the sanitized
\* bullet, in the theme's text hex colour; with theme Clean White, title
\* "intro" and bullets "a", "b": title "Intro" in 2563eb, paragraphs "A", "B"
\* in 111827.
C12_ContentPage ==
    \A k \in 1..N :
        Len(pages) >= k + 1 =>
            LET slide == args.presentation.slides[k]
                title == pages[k + 1].objects[1]
                block == pages[k + 1].objects[3]
            IN /\ title.box = "slideTitle"
               /\ title.text = sanitizeText(slide.title)
               /\ title.color = args.theme.colors.hex.accent
               /\ block.box = "bullets"
               /\ Len(block.paras) = Len(slide.content)
               /\ \A j \in 1..Len(slide.content) :
                      block.paras[j] = sanitizeText(slide.content[j])
               /\ block.color = args.theme.colors.hex.text
               /\ ThemesWithId(themeId) # {} =>
                      /\ title.color = HexOf(themeId).accent
                      /\ block.color = HexOf(themeId).text
               /\ (themeId = "clean-white" /\ slide = IntroSlide) =>
                      /\ title.text = <<"I", "n", "t", "r", "o">>
                      /\ title.color = "2563eb"
                      /\ block.paras = << <<"A">>, <<"B">> >>
                      /\ block.color = "111827"

\* the deck of the example was exported with theme Clean White and written
C12_Witness ==
    /\ pc = "done"
    /\ saved # <<>>
    /\ themeId = "clean-white"
    /\ args.presentation.slides = <<IntroSlide>>
    /\ saved[1].pages[2].objects[1].text = <<"I", "n", "t", "r", "o">>
    /\ saved[1].pages[2].objects[3].paras = << <<"A">>, <<"B">> >>

\* C18: the theme in use is the catalog entry whose id is themeId when there
\* is one, and the first catalog entry for every other themeId; it is always
\* an entry of the catalog.
C18_ThemeLookup ==
    /\ \A n \in 1..Len(PRESENTATION_THEMES) :
            PRESENTATION_THEMES[n].id = themeId => theme = PRESENTATION_THEMES[n]
    /\ (\A n \in 1..Len(PRESENTATION_THEMES) : PRESENTATION_THEMES[n].id # themeId)
            => theme = PRESENTATION_THEMES[1]
    /\ \E n \in 1..Len(PRESENTATION_THEMES) : theme = PRESENTATION_THEMES[n]
    /\ pc # "idle" => args.theme = theme

\* a deck was exported under a themeId that is not in the catalog, in the
\* colours of the first catalog entry
C18_Witness ==
    /\ themeId = "retro-neon"
    /\ pc = "done"
    /\ saved # <<>>
    /\ args.theme.id = "modern-slate"
    /\ pres.master.background = [color |-> "0f172a"]

\* the objects of a page that are a filled rectangle
PageBars(pg) == {j \in 1..Len(pg.objects) : pg.objects[j].op = "rect"}

\* C20: every page of an export, the cover and the page of each slide, uses
\* the one slide master and draws no bar of its own; with a background image
\* the master's background is that image and the master has no bottom bar;
\* without one the master's background is the theme's background hex colour
\* and the master has the bottom bar in the theme's accent hex colour.
C20_BackgroundAndBar ==
    pc # "idle" =>
        /\ \A n \in 1..Len(pages) :
                /\ pages[n].masterName = pres.master.title
                /\ PageBars(pages[n]) = {}
        /\ pc \in {"write", "done"} => Len(pages) = N + 1
        /\ IF args.backgroundImage = BackgroundUpload
           THEN /\ pres.master.background = [data |-> BackgroundUpload]
                /\ pres.master.objects = <<>>
           ELSE /\ args.backgroundImage = NullUri
                /\ pres.master.background = [color |-> args.theme.colors.hex.bg]
                /\ Len(pres.master.objects) = 1
                /\ pres.master.objects[1].rect.fill = args.theme.colors.hex.accent
                /\ themeId = "corporate-blue" =>
                       /\ pres.master.background = [color |-> "1e3a8a"]
                       /\ pres.master.objects[1].rect.fill = "fbbf24"

\* a deck of two slides was exported with a background image and written
C20_Witness ==
    /\ pc = "done"
    /\ saved # <<>>
    /\ N = 2
    /\ customBackground = BackgroundUpload
    /\ args.backgroundImage = BackgroundUpload
    /\ pres.master.objects = <<>>

----------------------------------------------------------------------------
(* Claims about the file name, checked under FileNameSpec *)

\* the positions of a text that hold an allow-listed character
AllowedAt(t) == {k \in 1..Len(t) : t[k] \in AllowList}

\* the number of allow-listed characters among the first k of a text
AllowedUpTo(t, k) == Cardinality({n \in AllowedAt(t) : n <= k})

\* C13: the stem derived from a main title holds allow-listed characters only
\* (Latin letters, Cyrillic letters, digits, spaces), is at most STEM_LENGTH
\* characters long and is not empty; it is the default name when the title
\* has no allow-listed character, and otherwise the allow-listed characters
\* of the title in their order, up to the first STEM_LENGTH of them.
C13_FileNameStem ==
    fnPc = "done" =>
        /\ \A k \in 1..Len(fnOut) : fnOut[k] \in AllowList
        /\ Len(fnOut) <= STEM_LENGTH
        /\ Len(fnOut) >= 1
        /\ AllowedAt(fnIn) = {} => fnOut = DefaultName
        /\ AllowedAt(fnIn) # {} =>
            /\ Len(fnOut) = IF Cardinality(AllowedAt(fnIn)) < STEM_LENGTH
                            THEN Cardinality(AllowedAt(fnIn)) ELSE STEM_LENGTH
            /\ \A k \in AllowedAt(fnIn) :
                    AllowedUpTo(fnIn, k) <= STEM_LENGTH
                        => fnOut[AllowedUpTo(fnIn, k)] = fnIn[k]

\* a title of a stripped character, a Cyrillic letter, 31 Latin letters and a
\* digit was cut to the Cyrillic letter and 29 Latin letters
C13_Witness ==
    /\ fnPc = "done"
    /\ Len(fnIn) > STEM_LENGTH + 2
    /\ fnIn[1] = "!"
    /\ fnIn[2] = "ya"
    /\ fnIn[Len(fnIn)] = "7"
    /\ Len(fnOut) = STEM_LENGTH
    /\ fnOut[1] = "ya"
    /\ fnOut[STEM_LENGTH] = "a"

----------------------------------------------------------------------------
(* Claims about generation, reset and the assistant, checked under AppSpec *)

\* C14: from a reset until a generation succeeds the application holds no
\* deck and shows the configuration form, whatever happens to an assistant
\* update that was in flight at the reset.
C14_ResetDestroysDeck ==
    wasReset => presentation = Null

----------------------------------------------------------------------------
(* Claims about the images of the slides, checked under ViewerSpec *)

\* C16: every uploaded image and every regenerated seed is stored under the
\* index of the slide it was set for, and no key of the two maps is at or
\* beyond the number of slides, also after an applied assistant update that
\* inserted or removed slides.
C16_OverridesFollowSlides ==
    presentation # Null =>
        /\ \A k \in DOMAIN customSlideImages :
            /\ k < Len(presentation.slides)
            /\ customSlideImages[k] = UploadFor(presentation.slides[k + 1])
        /\ \A k \in DOMAIN imageSeeds :
            /\ k < Len(presentation.slides)
            /\ imageSeeds[k] = NewSeed(presentation.slides[k + 1])

\* what a src selects, apart from the size of a remote image
Selected(src) == IF "data" \in DOMAIN src THEN src ELSE [seed |-> src.seed]

\* the rule: the upload of index k, else the regenerated seed of k, else the
\* keyword of the slide
SelectedByRule(k) ==
    IF k \in DOMAIN customSlideImages THEN [data |-> customSlideImages[k]]
    ELSE IF k \in DOMAIN imageSeeds THEN [seed |-> imageSeeds[k]]
    ELSE [seed |-> presentation.slides[k + 1].imageKeyword]

\* C19: with includeImages true, the thumbnail, the print layout and the
\* export select the image of every slide index, and the screen the image of
\* the slide shown, by one rule: the uploaded image of the index if there is
\* one, else the remote image of the regenerated seed of the index if there
\* is one, else the remote image of the slide's keyword.
C19_OneImageRule ==
    (presentation # Null /\ presentation.includeImages) =>
        /\ \A k \in 0..(Len(presentation.slides) - 1) :
            /\ Selected(ThumbnailSrc(k)) = SelectedByRule(k)
            /\ Selected(PrintSrc(k)) = SelectedByRule(k)
            /\ Selected(ExportSrc(k)) = SelectedByRule(k)
        /\ ShowsSlide => Selected(SlideImageSrc) = SelectedByRule(currentSlideIndex - 1)

\* the first slide is shown; it has a regenerated seed and, uploaded after
\* it, an image, and the screen shows the upload
C19_Witness ==
    /\ presentation # Null
    /\ presentation.includeImages
    /\ currentSlideIndex = 1
    /\ 0 \in DOMAIN imageSeeds
    /\ 0 \in DOMAIN customSlideImages
    /\ SlideImageSrc = [data |-> UploadFor(presentation.slides[1])]
    /\ Len(presentation.slides) = 2
    /\ 1 \in DOMAIN imageSeeds
    /\ 1 \notin DOMAIN customSlideImages

----------------------------------------------------------------------------
(* Claims about the editable fields, checked under EditSpec *)

\* C17: a field's text is committed only by the loss of focus, or by Enter in
\* a single-line field, and a commit whose text equals the field's value,
\* with or without leading or trailing white space, calls no deck update.
C17_CommitOnlyChanges ==
    /\ lastCommit.by \in {"none", "blur", "enter"}
    /\ lastCommit.by = "enter" => lastCommit.field \in SingleLine
    /\ lastCommit.same => ~lastCommit.onChange

----------------------------------------------------------------------------
(* Claims about text fitting and the image fetches of one export *)

\* the text boxes of a page: the objects written with addText
TextBoxes(pg) == {pg.objects[j] : j \in {n \in 1..Len(pg.objects) : pg.objects[n].op = "text"}}

\* the kinds of visible text box an export writes
VisibleBoxes == {"coverTitle", "subTitle", "slideTitle", "bullets"}

\* C21: every text box of every page an export has written, and of every page
\* of a saved document, is one of the four visible kinds (cover title,
\* subtitle, slide title, bullet block) and is written with shrinkText true,
\* whatever the length of the deck's texts.
C21_ShrinkToFit ==
    /\ \A n \in 1..Len(pages) : \A b \in TextBoxes(pages[n]) :
            b.box \in VisibleBoxes /\ b.shrinkText = TRUE
    /\ \A s \in 1..Len(saved) : \A n \in 1..Len(saved[s].pages) :
            \A b \in TextBoxes(saved[s].pages[n]) :
                b.box \in VisibleBoxes /\ b.shrinkText = TRUE

\* a document was saved whose cover has a title and a subtitle and whose
\* first slide page has a title and a bullet block of two paragraphs
C21_Witness ==
    /\ pc = "done"
    /\ saved # <<>>
    /\ {b.box : b \in TextBoxes(saved[1].pages[1])} = {"coverTitle", "subTitle"}
    /\ Len(saved[1].pages) >= 2
    /\ {b.box : b \in TextBoxes(saved[1].pages[2])} = {"slideTitle", "bullets"}
    /\ \E b \in TextBoxes(saved[1].pages[2]) : b.box = "bullets" /\ Len(b.paras) = 2

\* the step issues a fetch: a pending entry is appended to the log
FetchIssued ==
    /\ fetchLog' # fetchLog
    /\ Len(fetchLog') > 0
    /\ fetchLog'[Len(fetchLog')].outcome = "pending"

\* C22: within one export every fetch that is issued is for a slide index
\* greater than the index of every fetch issued before it, whatever the
\* outcomes of the earlier fetches were (timeout, error or image), so that no
\* index has two attempts; the first fetch of an export starts a new log.
C22_OneFetchPerSlide ==
    [][FetchIssued =>
         /\ IF pc = "fetch"
            THEN /\ Len(fetchLog') = Len(fetchLog) + 1
                 /\ \A n \in 1..Len(fetchLog) :
                        /\ fetchLog'[n].index = fetchLog[n].index
                        /\ fetchLog'[n].outcome \in Endings
                        /\ fetchLog[n].index < fetchLog'[Len(fetchLog')].index
            ELSE Len(fetchLog') = 1
         /\ \A k \in 0..MaxSlides :
                Cardinality({n \in 1..Len(fetchLog') : fetchLog'[n].index = k}) <= 1
      ]_vars

\* an export was written after the fetch of the first slide timed out and the
\* fetch of the second slide met a network error: two attempts in all
C22_Witness ==
    /\ pc = "done"
    /\ saved # <<>>
    /\ Len(fetchLog) = 2
    /\ fetchLog[1].index = 0 /\ fetchLog[1].outcome = "timeout"
    /\ fetchLog[2].index = 1 /\ fetchLog[2].outcome = "network_error"

----------------------------------------------------------------------------
(* Claims about the viewer's page index, checked under NavSpec *)

\* C23: while a viewer is mounted the page index is 0, the cover, or the
\* number of a slide of the deck: the viewer never shows a page for which
\* slideData is undefined.
C23_IndexInRange ==
    presentation # Null =>
        /\ currentSlideIndex >= 0
        /\ currentSlideIndex <= Len(presentation.slides)

----------------------------------------------------------------------------
(* Claims about manual edits, checked under ManualSpec *)

\* the fields of a deck apart from its slides, and the fields of a slide
DeckFields == {"mainTitle", "subTitle", "includeImages"}
SlideFields == {"title", "content", "imageKeyword", "speakerNotes"}

\* the fields of F in which records p and q differ: present in one only, or
\* with different values
Differing(p, q, F) ==
    {f \in F : \/ (f \in DOMAIN p) # (f \in DOMAIN q)
               \/ f \in DOMAIN p /\ f \in DOMAIN q /\ p[f] # q[f]}

\* contents c and d have the same bullets in the same places but for one
OneBulletDiffers(c, d) ==
    /\ Len(c) = Len(d)
    /\ Cardinality({j \in 1..Len(c) : c[j] # d[j]}) = 1

\* deck q is deck p after an edit of one field of page index
OneFieldEdited(p, q, index) ==
    IF index = 0
    THEN /\ q.slides = p.slides
         /\ Differing(p, q, DeckFields) \in {{"mainTitle"}, {"subTitle"}}
    ELSE /\ Differing(p, q, DeckFields) = {}
         /\ Len(q.slides) = Len(p.slides)
         /\ index <= Len(p.slides)
         /\ \A k \in 1..Len(p.slides) : k # index => q.slides[k] = p.slides[k]
         /\ LET changed == Differing(p.slides[index], q.slides[index], SlideFields)
            IN /\ changed \in {{"title"}, {"content"}, {"speakerNotes"}}
               /\ changed = {"content"} =>
                      OneBulletDiffers(p.slides[index].content, q.slides[index].content)

----------------------------------------------------------------------------
(* Claims about refreshing the image of a slide, checked under ViewerSpec *)

\* text t begins with text prefix followed by a hyphen
DerivedFrom(t, prefix) ==
    /\ Len(t) > Len(prefix)
    /\ SubSeq(t, 1, Len(prefix)) = prefix
    /\ t[Len(prefix) + 1] = "-"

\* map m2 is map m1 at every index but idx
SameElsewhere(m1, m2, idx) ==
    \A k \in (DOMAIN m1 \cup DOMAIN m2) \ {idx} :
        k \in DOMAIN m1 /\ k \in DOMAIN m2 /\ m1[k] = m2[k]

\* the step is a refresh of an image: a seed is stored or replaced, or an
\* uploaded image is removed
RefreshStep ==
    \/ imageSeeds' # imageSeeds
    \/ DOMAIN customSlideImages \ DOMAIN customSlideImages' # {}

\* C30: a refresh happens while a slide is shown; after it no uploaded image
\* is stored for the index of that slide, the seed stored for the index
\* begins with the slide's keyword, and the uploaded images and seeds of every
\* other index are as before.  While the cover is shown no step changes an
\* uploaded image or a seed.
C30_RefreshFrame ==
    [][/\ RefreshStep =>
            LET idx == currentSlideIndex - 1 IN
            /\ ShowsSlide
            /\ idx \notin DOMAIN customSlideImages'
            /\ idx \in DOMAIN imageSeeds'
            /\ DerivedFrom(imageSeeds'[idx], presentation.slides[currentSlideIndex].imageKeyword)
            /\ SameElsewhere(customSlideImages, customSlideImages', idx)
            /\ SameElsewhere(imageSeeds, imageSeeds', idx)
       /\ (presentation # Null /\ currentSlideIndex = 0) =>
            UNCHANGED <<customSlideImages, imageSeeds>>
      ]_vars

\* the second slide is shown with a regenerated seed and no uploaded image,
\* while the first slide has both an uploaded image and a seed
C30_Witness ==
    /\ presentation # Null
    /\ currentSlideIndex = 2
    /\ DOMAIN customSlideImages = {0}
    /\ DOMAIN imageSeeds = {0, 1}
    /\ imageSeeds[1] = SlideB.imageKeyword \o <<"-", "r">>
    /\ presentation.slides[2] = SlideB

----------------------------------------------------------------------------
(* Claims about manual edits and the assistant, checked under AssistSpec *)

\* the step applies the response to request r in the viewer that sent it
Applied(r) ==
    /\ r \in requests
    /\ r \notin requests'
    /\ chatMessages' = Append(chatMessages, "done")

\* C24: when the response to a request is applied, every field of the cover
\* that a manual edit changed since the request was sent keeps the edited
\* text, and, when the response keeps the number of slides, so does every
\* slide that a manual edit changed since then.
C24_EditsSurviveUpdate ==
    [][\A r \in requests :
         Applied(r) =>
            /\ \A f \in Differing(r.base, presentation, {"mainTitle", "subTitle"}) :
                    /\ f \in DOMAIN presentation'
                    /\ presentation'[f] = presentation[f]
            /\ Len(presentation'.slides) = Len(r.base.slides) =>
                    \A k \in 1..Len(presentation.slides) :
                        presentation.slides[k] # r.base.slides[k] =>
                            presentation'.slides[k] = presentation.slides[k]
      ]_vars

\* C28: no step of a manual edit or of the assistant changes the deck's
\* includeImages flag: it is the value the deck was generated with, although
\* every response of the assistant carries the opposite value.
C28_FlagKept ==
    [][/\ presentation'.includeImages = presentation.includeImages
       /\ \A r \in requests : \A data \in UpdatedData(r.base) :
            /\ data.includeImages # r.base.includeImages
            /\ Applied(r) => r.base.includeImages = presentation.includeImages
      ]_vars

\* a deck generated with images after the assistant inserted a slide and the
\* user edited the main title
C28_Witness ==
    /\ presentation.includeImages = TRUE
    /\ chatMessages = <<Greeting, "user", "done">>
    /\ presentation.slides = <<SlideC, SlideB>>
    /\ presentation.mainTitle = <<"b", " ">>

----------------------------------------------------------------------------
(* Claims about the requests to the assistant, checked under AppSpec *)

\* C26: at most one request to the assistant is in flight at any time: no
\* step starts a request while one is in flight, a step that starts a request
\* appends the user's message, and a step that starts none and ends none
\* leaves the chat and the deck as they were.
C26_OneRequestInFlight ==
    [][/\ Cardinality(requests') <= 1
       /\ requests # {} => requests' \subseteq requests
       /\ requests' \ requests # {} =>
            /\ isUpdating'
            /\ chatMessages' = Append(chatMessages, "user")
            /\ presentation' = presentation
      ]_vars

----------------------------------------------------------------------------
(* Claims about the exporting flag, checked under ExportsSpec *)

\* an export is in progress: the one followed, or an earlier one
ExportInProgress == pc \in {"fetch", "write"} \/ others # <<>>

\* C25: the exporting flag is true exactly while an export is in progress.
C25_ExportingFlag == isExporting <=> ExportInProgress

----------------------------------------------------------------------------
(* Claims about an export and the viewer's changes, checked under SnapshotSpec *)

\* what the viewer holds now
ViewerNow ==
    [presentation |-> presentation, theme |-> theme, imageSeeds |-> imageSeeds,
     backgroundImage |-> customBackground, customSlideImages |-> customSlideImages]

\* the images the page of slide index k may carry for the arguments a: none
\* without images, the uploaded one, else the fetched one or none
ImagesFor(a, k) ==
    IF ~a.presentation.includeImages THEN {UndefinedUri}
    ELSE IF TruthyUri(CustomImage(a, k)) THEN {CustomImage(a, k)}
    ELSE {PicsumImage(ImageSeed(a, k)), UndefinedUri}

\* the page of slide index k for the arguments a, with image img
PageFor(a, k, img) ==
    LET slide == a.presentation.slides[k + 1] IN
    AddSlide(SlideHead(slide, a.theme) \o SlideBullets(a.presentation, slide, a.theme)
             \o SlideEnd(slide, img))

\* the document and the finished pages are the ones of the arguments
DocumentOfArgs ==
    /\ pres = NewPres(args.presentation, args.theme, args.backgroundImage)
    /\ Len(pages) >= 1
    /\ pages[1] = AddSlide(CoverPage(args.presentation, args.theme))
    /\ \A k \in 0..(Len(pages) - 2) :
            PageComplete(k) =>
                \E img \in ImagesFor(args, k) : pages[k + 2] = PageFor(args, k, img)
    /\ saved # <<>> =>
            /\ saved[1].pages = pages
            /\ Len(pages) = Len(args.presentation.slides) + 1

\* C27: the arguments of an export are what the viewer held when it was
\* triggered, no later step changes them, and the document, every finished
\* page and the saved file are the ones of those arguments, whatever the user
\* and the assistant change while the export waits for an image.
C27_ExportSnapshot ==
    [][/\ (pc = "idle" /\ pc' # "idle") => args' = ViewerNow
       /\ pc # "idle" => args' = args
       /\ pc' # "idle" => DocumentOfArgs'
      ]_vars

\* a file was saved with a fetched image of the slide's keyword and the texts
\* of the deck as it was, after the user changed the deck, refreshed the
\* image, uploaded one and a background, and the assistant's update was
\* applied, all while the image was being fetched
C27_Witness ==
    /\ pc = "done"
    /\ saved # <<>>
    /\ args.presentation.slides = <<SlideB>>
    /\ PageImages(saved[1].pages[2]) = {PicsumImage(SlideB.imageKeyword)}
    /\ presentation.slides # args.presentation.slides
    /\ presentation.mainTitle # args.presentation.mainTitle
    /\ DOMAIN imageSeeds = {0}
    /\ DOMAIN customSlideImages = {0}
    /\ customBackground = BackgroundUpload
    /\ args.backgroundImage = NullUri
    /\ chatMessages = <<Greeting, "user", "done", "user", "done">>

====
